---- MODULE Spec2Model ----
(***************************************************************************)
(* A model of the vagueness-detection pipeline of pm-official/MTP_Temp:    *)
(* the text segmenter (preprocessing/chunk_text.py), the hybrid classifier *)
(* (detection/vagueness_detector.py), the cross-reference analyzer         *)
(* (analysis/cross_reference.py, embeddings/create_embeddings.py) and the  *)
(* suggestion agent (rag/suggestion_agent.py, rag/retriever.py).           *)
(*                                                                         *)
(* Each component has its own specification (SpecChunk, SpecDet,           *)
(* SpecXref, SpecSug); the variables of the other components stay at       *)
(* their initial values.  A Python exception that leaves a function is the *)
(* value Raised (or a pc of "raised").                                     *)
(***************************************************************************)
EXTENDS Integers, Sequences, FiniteSets, TLC

\* ---------------------------------------------------------------- bounds
MaxTextLen == 7
MaxChunkSize == 4
MaxOverlap == 2
MaxMaxRetries == 3
MaxMatches == 3

\* ------------------------------------------------------------- variables
VARIABLES
    \* TextChunker.chunk_by_sentences
    text, doc_metadata, chunk_size, overlap,
    sentences, base_name, chunks, current_chunk, current_length, chunk_id,
    i, carried, pcChunk,
    \* VaguenessDetector.detect_vagueness_in_text / _analyze_with_gemini
    max_retries, rule_based_matches, attempt, outcomes, gemini_analysis,
    det_result, pcDet,
    \* VaguenessDetector.detect_batch
    det_args, det_chunks, det_i, det_results,
    \* EmbeddingManager / CrossReferenceAnalyzer
    collection, vague_chunks, ci, pj, related_chunks, relevance_analyses,
    all_phrase_analyses, analyzed_chunks, xlog, search_calls, pcX,
    \* SuggestionAgent
    detection_results, si, sp, doc_suggestions, query_count, all_chunks,
    retrieved_chunks, suggestions, processed_results, slog, pcS,
    \* calculate_cross_reference_score called on its own
    judgments, score_calls, pcScore,
    \* load_tender_documents / EmbeddingManager.add_documents_to_collection
    all_docs, di, doc_metadatas, tender_chunks, batch_size, batch_i,
    tender_collection, pcLoad,
    \* PDFExtractor._extract_pages_parallel
    doc, max_workers, futures, consumed, page_texts, extracted, pcPdf

chunkVars == <<text, doc_metadata, chunk_size, overlap, sentences, base_name,
               chunks, current_chunk, current_length, chunk_id, i, carried,
               pcChunk>>

detVars == <<max_retries, rule_based_matches, attempt, outcomes, gemini_analysis,
             det_result, pcDet, det_args, det_chunks, det_i, det_results>>
batchVars == <<det_args, det_chunks, det_i, det_results>>

xrefVars == <<collection, vague_chunks, ci, pj, related_chunks, relevance_analyses,
              all_phrase_analyses, analyzed_chunks, xlog, search_calls, pcX>>

sugVars == <<detection_results, si, sp, doc_suggestions, query_count, all_chunks,
             retrieved_chunks, suggestions,
             processed_results, slog, pcS>>

scoreVars == <<judgments, score_calls, pcScore>>

loadVars == <<all_docs, di, doc_metadatas, tender_chunks, batch_size, batch_i,
              tender_collection, pcLoad>>

pdfVars == <<doc, max_workers, futures, consumed, page_texts, extracted, pcPdf>>

vars == <<chunkVars, detVars, xrefVars, sugVars, scoreVars, loadVars, pdfVars>>

\* what each component leaves alone
notChunk == <<detVars, xrefVars, sugVars, scoreVars, loadVars, pdfVars>>
notDet == <<chunkVars, xrefVars, sugVars, scoreVars, loadVars, pdfVars>>
notXref == <<chunkVars, detVars, sugVars, scoreVars, loadVars, pdfVars>>
notSug == <<chunkVars, detVars, xrefVars, scoreVars, loadVars, pdfVars>>
notScore == <<chunkVars, detVars, xrefVars, sugVars, loadVars, pdfVars>>
notLoad == <<detVars, xrefVars, sugVars, scoreVars, pdfVars>>
notPdf == <<chunkVars, detVars, xrefVars, sugVars, scoreVars, loadVars>>

\* ---------------------------------------------------------------- helpers
RECURSIVE SumLen(_)
SumLen(ss) == IF ss = <<>> THEN 0 ELSE Len(Head(ss)) + SumLen(Tail(ss))

RECURSIVE Flatten(_)
Flatten(ss) == IF ss = <<>> THEN <<>> ELSE Head(ss) \o Flatten(Tail(ss))

RECURSIVE Str(_)
Str(cs) == IF cs = <<>> THEN "" ELSE Head(cs) \o Str(Tail(cs))

Last(s) == s[Len(s)]

SeqsUpTo(S, n) == UNION {[1..k -> S] : k \in 0..n}

\* ------------------------------------------------------- Python floats
\* A Python float is an IEEE 754 binary64 number.  The floats of the model
\* are the binary64 numbers that are multiples of 2^-(FracLimbs * LimbBits):
\* a sign and a magnitude, the magnitude a natural number written in limbs of
\* LimbBits bits, least significant first, without leading zero limbs.  Every
\* operation computes the exact result and rounds it to MantBits significant
\* bits, ties to even, as the hardware does.
LimbBits == 20
Base == 2 ^ LimbBits
FracLimbs == 6
GuardLimbs == 3
MantBits == 53

Rest(a) == IF a = <<>> THEN <<>> ELSE Tail(a)
Low(a) == IF a = <<>> THEN 0 ELSE Head(a)
Zeros(n) == [k \in 1..n |-> 0]

RECURSIVE NTrim(_)
NTrim(a) == IF a = <<>> \/ a[Len(a)] # 0 THEN a ELSE NTrim(SubSeq(a, 1, Len(a) - 1))

RECURSIVE NAdd(_, _, _)
NAdd(a, b, carry) ==
    IF a = <<>> /\ b = <<>> THEN (IF carry = 0 THEN <<>> ELSE <<carry>>)
    ELSE LET x == Low(a) + Low(b) + carry
         IN  <<x % Base>> \o NAdd(Rest(a), Rest(b), x \div Base)

\* a - b - borrow for a >= b
RECURSIVE NSub(_, _, _)
NSub(a, b, borrow) ==
    IF a = <<>> THEN <<>>
    ELSE LET x == Low(a) - Low(b) - borrow
         IN  <<x % Base>> \o NSub(Rest(a), Rest(b), IF x < 0 THEN 1 ELSE 0)

RECURSIVE NLess(_, _)
NLess(a, b) ==
    IF Len(a) # Len(b) THEN Len(a) < Len(b)
    ELSE IF a = <<>> THEN FALSE
    ELSE IF a[Len(a)] # b[Len(b)] THEN a[Len(a)] < b[Len(b)]
    ELSE NLess(NTrim(SubSeq(a, 1, Len(a) - 1)), NTrim(SubSeq(b, 1, Len(b) - 1)))

RECURSIVE NMulSmall(_, _, _)
NMulSmall(a, n, carry) ==
    IF a = <<>> THEN (IF carry = 0 THEN <<>> ELSE <<carry>>)
    ELSE LET x == Head(a) * n + carry
         IN  <<x % Base>> \o NMulSmall(Tail(a), n, x \div Base)

\* quotient and remainder of a by the small number n
RECURSIVE NDivSmall(_, _)
NDivSmall(a, n) ==
    IF a = <<>> THEN [q |-> <<>>, r |-> 0]
    ELSE LET hi == NDivSmall(Tail(a), n)
             cur == hi.r * Base + Head(a)
         IN  [q |-> <<cur \div n>> \o hi.q, r |-> cur % n]

RECURSIVE BitLen(_)
BitLen(x) == IF x = 0 THEN 0 ELSE 1 + BitLen(x \div 2)

NBits(a) == IF a = <<>> THEN 0 ELSE (Len(a) - 1) * LimbBits + BitLen(a[Len(a)])
\* bit k (bit 0 the least significant) of a
NBit(a, k) == (a[k \div LimbBits + 1] \div (2 ^ (k % LimbBits))) % 2
\* the bits of a below bit k are all zero
NLowZero(a, k) ==
    /\ \A j \in 1..(k \div LimbBits) : a[j] = 0
    /\ a[k \div LimbBits + 1] % (2 ^ (k % LimbBits)) = 0
NClearLow(a, k) ==
    [j \in 1..Len(a) |->
        IF j <= k \div LimbBits THEN 0
        ELSE IF j = k \div LimbBits + 1
             THEN a[j] - (a[j] % (2 ^ (k % LimbBits)))
             ELSE a[j]]
NPow2(k) == Zeros(k \div LimbBits) \o <<2 ^ (k % LimbBits)>>

\* round to nearest, ties to even, at MantBits significant bits; sticky says
\* that the exact value is a little above a
RoundMant(a, sticky) ==
    LET drop == NBits(a) - MantBits
        half == NBit(a, drop - 1)
        rest == sticky \/ ~NLowZero(a, drop - 1)
        odd == NBit(a, drop) = 1
    IN  IF drop <= 0 THEN a
        ELSE IF half = 1 /\ (rest \/ odd)
             THEN NAdd(NClearLow(a, drop), NPow2(drop), 0)
             ELSE NClearLow(a, drop)

Float(neg, mag) == [t |-> "float", neg |-> neg /\ mag # <<>>, mag |-> mag]
\* float(n) for an int n
FInt(n) ==
    IF n = 0 THEN Float(FALSE, <<>>)
    ELSE Float(n < 0, NTrim(Zeros(FracLimbs)
                            \o NMulSmall(<<1>>, IF n < 0 THEN 0 - n ELSE n, 0)))
\* x + y
FAdd(x, y) ==
    IF x.neg = y.neg THEN Float(x.neg, RoundMant(NAdd(x.mag, y.mag, 0), FALSE))
    ELSE IF NLess(x.mag, y.mag)
         THEN Float(y.neg, RoundMant(NTrim(NSub(y.mag, x.mag, 0)), FALSE))
         ELSE Float(x.neg, RoundMant(NTrim(NSub(x.mag, y.mag, 0)), FALSE))
\* x / n for an int n >= 1
FDivInt(x, n) ==
    LET d == NDivSmall(Zeros(GuardLimbs) \o x.mag, n)
        r == RoundMant(NTrim(d.q), d.r # 0)
    IN  Float(x.neg, NTrim(SubSeq(r, GuardLimbs + 1, Len(r))))
\* n * x for an int n >= 0
FMulInt(n, x) == Float(x.neg, RoundMant(NTrim(NMulSmall(x.mag, n, 0)), FALSE))
\* x * 0.5, which is exact
FHalf(x) == FDivInt(x, 2)
\* x < y
FLess(x, y) ==
    IF x.neg # y.neg THEN x.neg
    ELSE IF x.neg THEN NLess(y.mag, x.mag) ELSE NLess(x.mag, y.mag)
FLeq(x, y) == ~FLess(y, x)
\* min(x, y) and max(x, y) as Python computes them
FMin(x, y) == IF FLess(y, x) THEN y ELSE x
\* the float a decimal literal n/d denotes (the nearest binary64 number)
FLit(n, d) == FDivInt(FInt(n), d)

\* the float literals of the sources
Zero == FInt(0)
One == FInt(1)
Lit01 == FLit(1, 10)
Lit02 == FLit(2, 10)
Lit03 == FLit(3, 10)
Lit035 == FLit(35, 100)
Lit04 == FLit(4, 10)
Lit05 == FLit(5, 10)
Lit06 == FLit(6, 10)
Lit08 == FLit(8, 10)

\* ------------------------------------------------------------ JSON values
\* A value json.loads can return (numbers in hundredths), None included.
JBool(b) == [t |-> "bool", b |-> b]
JStr(x) == [t |-> "str", s |-> x]
JNum(n) == [t |-> "num", n |-> n]
JList(xs) == [t |-> "list", xs |-> xs]
JObj(f) == [t |-> "object", f |-> f]
JNull == [t |-> "null"]
Raised(error) == [t |-> "raised", error |-> error]

IsDict(v) == v.t = "object"
HasKey(v, k) == k \in DOMAIN v.f
\* dict.get(k, default), for a v that is a dict
Get(v, k, default) == IF HasKey(v, k) THEN v.f[k] ELSE default
\* Python truthiness
Truthy(v) ==
    CASE v.t = "bool" -> v.b
      [] v.t = "str" -> v.s # ""
      [] v.t = "num" -> v.n # 0
      [] v.t = "list" -> v.xs # <<>>
      [] v.t = "object" -> DOMAIN v.f # {}
      [] OTHER -> FALSE
\* hash(v) works: lists and dicts are unhashable
Hashable(v) == v.t \notin {"list", "object"}

\* ------------------------------------------------------ LLM responses
\* A response text is a sequence of fragments: the markdown fence markers
\* (three backticks followed by json, three backticks), a JSON document, or
\* prose (text json.loads rejects, the error being reported at character pos).
FenceJson == [k |-> "fence_json"]
Fence == [k |-> "fence"]
Doc(v) == [k |-> "json", v |-> v]
Prose(pos) == [k |-> "prose", pos |-> pos]

RECURSIVE TakeUntil(_, _)
TakeUntil(fr, stops) ==
    IF fr = <<>> \/ Head(fr) \in stops THEN <<>>
    ELSE <<Head(fr)>> \o TakeUntil(Tail(fr), stops)

RECURSIVE After(_, _)
After(fr, mark) ==
    IF fr = <<>> THEN <<>>
    ELSE IF Head(fr) = mark THEN Tail(fr) ELSE After(Tail(fr), mark)

InText(mark, fr) == \E k \in 1..Len(fr) : fr[k] = mark

\* the "remove markdown code blocks" lines: split(json fence)[1].split(fence)[0]
\* or split(fence)[1].split(fence)[0]
StripFences(fr) ==
    IF InText(FenceJson, fr) THEN TakeUntil(After(fr, FenceJson), {FenceJson, Fence})
    ELSE IF InText(Fence, fr) THEN TakeUntil(After(fr, Fence), {Fence})
    ELSE fr

\* error messages are sequences of words
DecodeError(pos) == <<"Expecting", "value:", "char", pos>>
AttributeError == <<"object", "has", "no", "attribute", "get">>
TypeErrorMsg == <<"unsupported", "type">>

\* json.loads: the parsed value, or Raised(JSONDecodeError message)
JsonLoads(fr) ==
    IF Len(fr) = 1 /\ fr[1].k = "json" THEN fr[1].v
    ELSE IF \E k \in 1..Len(fr) : fr[k].k = "prose"
         THEN Raised(DecodeError(fr[CHOOSE k \in 1..Len(fr) : fr[k].k = "prose"
                                       /\ \A m \in 1..(k - 1) : fr[m].k # "prose"].pos))
         ELSE Raised(DecodeError("0"))

\* model.generate_content(prompt) raises, or returns a response whose text is
\* then stripped of fences and parsed: the value, or Raised(str(e))
LlmRaise(msg) == [kind |-> "raise", msg |-> msg]
LlmText(fr) == [kind |-> "text", text |-> fr]
CallAndParse(outcome) ==
    IF outcome.kind = "raise" THEN Raised(outcome.msg)
    ELSE JsonLoads(StripFences(outcome.text))

RaiseMessages ==
    { <<"Connect", "Timeout">>, <<"503", "unavailable">>, <<"429", "quota">>,
      <<"API", "key", "invalid">> }

\* str.lower()
Lower(w) ==
    CASE w = "Timeout" -> "timeout"
      [] w = "Connect" -> "connect"
      [] w = "Network" -> "network"
      [] OTHER -> w

\* ==================================================== preprocessing/chunk_text.py
TextChars == {"a", ".", " "}
Whitespace == {" ", "\n"}
Punct == {".", "!", "?"}

\* str.strip()
RECURSIVE LStrip(_)
LStrip(s) == IF s # <<>> /\ Head(s) \in Whitespace THEN LStrip(Tail(s)) ELSE s

RECURSIVE RStrip(_)
RStrip(s) ==
    IF s # <<>> /\ Last(s) \in Whitespace THEN RStrip(SubSeq(s, 1, Len(s) - 1)) ELSE s

Strip(s) == RStrip(LStrip(s))

\* re.split(r'(?<=[.!?])\s+', text): a whitespace run that directly follows a
\* punctuation mark is a separator; cur is the piece being read.
RECURSIVE ReSplit(_, _)
ReSplit(t, cur) ==
    IF t = <<>> THEN <<cur>>
    ELSE IF Head(t) \in Whitespace /\ cur # <<>> /\ Last(cur) \in Punct
         THEN <<cur>> \o ReSplit(LStrip(t), <<>>)
         ELSE ReSplit(Tail(t), Append(cur, Head(t)))

RECURSIVE StripNonEmpty(_)
StripNonEmpty(ps) ==
    IF ps = <<>> THEN <<>>
    ELSE IF Strip(Head(ps)) # <<>>
         THEN <<Strip(Head(ps))>> \o StripNonEmpty(Tail(ps))
         ELSE StripNonEmpty(Tail(ps))

_split_into_sentences(t) == StripNonEmpty(ReSplit(t, <<>>))

\* TextChunker._get_overlap_sentences: walk the sentences backwards, always
\* taking the sentence before testing the running length against overlap.
RECURSIVE OverlapFrom(_, _, _, _)
OverlapFrom(ss, k, overlap_chars, ov) ==
    IF k = 0 THEN <<>>
    ELSE IF overlap_chars + Len(ss[k]) >= ov
         THEN <<ss[k]>>
         ELSE OverlapFrom(ss, k - 1, overlap_chars + Len(ss[k]), ov) \o <<ss[k]>>

_get_overlap_sentences(ss, ov) == OverlapFrom(ss, Len(ss), 0, ov)

\* str.replace(old, new) for one-character old
Replace(s, old, new) == [k \in 1..Len(s) |-> IF s[k] = old THEN new ELSE s[k]]

\* filename.rsplit('.', 1)[0]
RSplitDot0(s) ==
    LET dots == {k \in 1..Len(s) : s[k] = "."}
    IN  IF dots = {} THEN s
        ELSE SubSeq(s, 1, (CHOOSE k \in dots : \A m \in dots : m <= k) - 1)

\* doc_metadata is None (or holds no filename)
NoMetadata == <<"None">>
Unknown == <<"u", "n", "k", "n", "o", "w", "n">>

Filenames ==
    { <<"a", " ", "b", ".", "p">>, <<"a", "-", "b">>, <<"a", ".", "b", ".", "p">>,
      <<".", "p">> }

\* BaseName with the hyphen replacement forgotten
BaseNameSpacesOnly(md) ==
    LET filename == IF md = NoMetadata THEN Unknown ELSE md
    IN  Replace(RSplitDot0(filename), " ", "_")

BaseName(md) ==
    LET filename == IF md = NoMetadata THEN Unknown ELSE md
    IN  Replace(Replace(RSplitDot0(filename), " ", "_"), "-", "_")

UniqueId(base, n) == Str(base) \o "_chunk_" \o ToString(n)

JoinSpace(ss) ==
    Flatten([k \in 1..Len(ss) |-> IF k = 1 THEN ss[k] ELSE <<" ">> \o ss[k]])

MakeChunk(base, n, cur, start, end, md) ==
    [chunk_id |-> UniqueId(base, n), text |-> JoinSpace(cur), sents |-> cur,
     start_sentence |-> start, end_sentence |-> end, metadata |-> md]

\* text.split('\n\n'): the pieces between non-overlapping occurrences of two
\* newlines, read from the left; pos is where the piece being read begins
RECURSIVE SplitParagraphs(_, _)
SplitParagraphs(t, pos) ==
    LET seps == {k \in pos..Len(t) - 1 : t[k] = "\n" /\ t[k + 1] = "\n"}
        first == CHOOSE k \in seps : \A m \in seps : k <= m
    IN  IF seps = {} THEN <<SubSeq(t, pos, Len(t))>>
        ELSE <<SubSeq(t, pos, first - 1)>> \o SplitParagraphs(t, first + 2)

\* the literal of "if len(para) > 50"
ParagraphMin == 50

ParaId(base, n) == Str(base) \o "_para_" \o ToString(n)

\* chunk_by_paragraphs, lines 111-120: the loop over enumerate(paragraphs)
\* from index n on
RECURSIVE ParaChunks(_, _, _, _)
ParaChunks(paragraphs, n, base, md) ==
    IF n >= Len(paragraphs) THEN <<>>
    ELSE (IF Len(paragraphs[n + 1]) > ParagraphMin
          THEN <<[chunk_id |-> ParaId(base, n), text |-> paragraphs[n + 1],
                  paragraph_num |-> n, metadata |-> md]>>
          ELSE <<>>)
         \o ParaChunks(paragraphs, n + 1, base, md)

\* TextChunker.chunk_by_paragraphs
chunk_by_paragraphs(t, md) ==
    ParaChunks(StripNonEmpty(SplitParagraphs(t, 1)), 0, BaseName(md), md)

\* the segmenter not in use
IdleChunk(pc) ==
    /\ text = <<>> /\ doc_metadata = NoMetadata /\ chunk_size = 0 /\ overlap = 0
    /\ sentences = <<>> /\ base_name = <<>> /\ chunks = <<>>
    /\ current_chunk = <<>> /\ current_length = 0 /\ chunk_id = 0
    /\ i = 0 /\ carried = <<>> /\ pcChunk = pc

\* chunk_by_sentences, lines 39-50: split, sanitise the filename, set the locals
ChunkStart ==
    /\ pcChunk = "start"
    /\ sentences' = _split_into_sentences(text)
    /\ base_name' = BaseName(doc_metadata)
    /\ chunks' = <<>> /\ current_chunk' = <<>> /\ current_length' = 0
    /\ chunk_id' = 0 /\ i' = 0 /\ carried' = <<>>
    /\ pcChunk' = "loop"
    /\ UNCHANGED <<text, doc_metadata, chunk_size, overlap>>
    /\ UNCHANGED notChunk

\* chunk_by_sentences, lines 52-75: one iteration of the loop over the sentences
\* (i is the 0-based index of the sentence read); carried records, per chunk
\* begun, how many sentences it was begun with.
ChunkLoop ==
    /\ pcChunk = "loop"
    /\ i < Len(sentences)
    /\ LET sentence == sentences[i + 1]
           sentence_length == Len(sentence)
           close == current_length + sentence_length > chunk_size
                    /\ current_chunk # <<>>
           overlap_sentences == _get_overlap_sentences(current_chunk, overlap)
       IN  /\ chunks' = IF close
                THEN Append(chunks, MakeChunk(base_name, chunk_id, current_chunk,
                                i - Len(current_chunk), i - 1, doc_metadata))
                ELSE chunks
           /\ chunk_id' = IF close THEN chunk_id + 1 ELSE chunk_id
           /\ current_chunk' = IF close THEN Append(overlap_sentences, sentence)
                               ELSE Append(current_chunk, sentence)
           /\ current_length' = IF close THEN SumLen(overlap_sentences) + sentence_length
                                ELSE current_length + sentence_length
           /\ carried' = IF close THEN Append(carried, Len(overlap_sentences))
                         ELSE IF current_chunk = <<>> THEN Append(carried, 0)
                         ELSE carried
    /\ i' = i + 1
    /\ UNCHANGED <<text, doc_metadata, chunk_size, overlap, sentences, base_name, pcChunk>>
    /\ UNCHANGED notChunk

\* ChunkFinish with the "add the last chunk" block forgotten
ChunkFinishNoLast ==
    /\ pcChunk = "loop"
    /\ i = Len(sentences)
    /\ pcChunk' = "done"
    /\ UNCHANGED <<text, doc_metadata, chunk_size, overlap, sentences, base_name,
                   chunks, current_chunk, current_length, chunk_id, i, carried>>
    /\ UNCHANGED notChunk

\* chunk_by_sentences, lines 77-90: the last chunk, and the return
ChunkFinish ==
    /\ pcChunk = "loop"
    /\ i = Len(sentences)
    /\ chunks' = IF current_chunk # <<>>
          THEN Append(chunks, MakeChunk(base_name, chunk_id, current_chunk,
                          Len(sentences) - Len(current_chunk), Len(sentences) - 1,
                          doc_metadata))
          ELSE chunks
    /\ pcChunk' = "done"
    /\ UNCHANGED <<text, doc_metadata, chunk_size, overlap, sentences, base_name,
                   current_chunk, current_length, chunk_id, i, carried>>
    /\ UNCHANGED notChunk


\* chunk_by_paragraphs, called on its own
ChunkByParagraphs ==
    /\ pcChunk = "paragraphs"
    /\ chunks' = chunk_by_paragraphs(text, doc_metadata)
    /\ pcChunk' = "paragraphs_done"
    /\ UNCHANGED <<text, doc_metadata, chunk_size, overlap, sentences, base_name,
                   current_chunk, current_length, chunk_id, i, carried>>
    /\ UNCHANGED notChunk

\* ============================================== detection/vagueness_detector.py
Categories == {"abstractness_subjective", "negative_passive"}

\* check_text_all_qualifiers: category -> number of recorded matches (>= 1),
\* only the categories that fired being keys
RuleMaps == UNION {[cs -> 1..MaxMatches] : cs \in SUBSET Categories}

Field(k, v) == [key |-> k, val |-> v]
\* the dict with the given fields
MkObj(fields) ==
    JObj([k \in {fl.key : fl \in fields} |-> (CHOOSE fl \in fields : fl.key = k).val])

\* dict item assignment d[k] = v
SetItem(d, k, v) == JObj([x \in DOMAIN d.f \cup {k} |-> IF x = k THEN v ELSE d.f[x]])

IsVagueValues == {JBool(TRUE), JBool(FALSE), JStr("yes")}
SeverityValues == {JStr("low"), JStr("medium"), JStr("high"), JStr("severe"),
                   JList(<<JStr("high")>>)}

\* the objects the LLM may answer the classifier prompt with
DetObjects ==
    {MkObj({Field("is_vague", v), Field("severity", sv)}) :
        v \in IsVagueValues, sv \in SeverityValues}
    \cup {MkObj({Field("is_vague", v)}) : v \in IsVagueValues}
    \cup {MkObj({Field("severity", JStr("high"))})}

NonObjects == {JList(<<>>), JNum(7), JNull}

DetResponses ==
    {<<Doc(o)>> : o \in DetObjects \cup NonObjects}
    \cup {<<FenceJson, Doc(o), Fence>> : o \in {MkObj({Field("is_vague", JBool(TRUE))})}}
    \cup {<<Prose("0"), Fence, Doc(o), Fence, Prose("0")>> :
              o \in {MkObj({Field("is_vague", JBool(FALSE))})}}
    \cup {<<Prose("0")>>, <<Prose("503")>>, <<FenceJson, Prose("0"), Fence>>,
          <<FenceJson, Fence>>}

DetOutcomes ==
    {LlmRaise(m) : m \in RaiseMessages} \cup {LlmText(fr) : fr \in DetResponses}

\* any(x in error_msg.lower() for x in ['timeout', 'connect', '503', 'network'])
IsNetworkError(error_msg) ==
    \E k \in 1..Len(error_msg) :
        Lower(error_msg[k]) \in {"timeout", "connect", "503", "network"}

\* AttemptsRemain with the bound off by one
AttemptsRemainOffByOne(att, mr) == att < mr

\* attempt < self.max_retries - 1
AttemptsRemain(att, mr) == att < mr - 1

\* the safe fallback of _analyze_with_gemini
Fallback(error_msg) ==
    MkObj({Field("is_vague", JBool(FALSE)), Field("vague_phrases", JList(<<>>)),
           Field("categories", JList(<<>>)),
           Field("explanation", [t |-> "text",
                                 words |-> <<"Error", "in", "analysis:">> \o error_msg]),
           Field("severity", JStr("unknown"))})

Min(a, b) == IF a <= b THEN a ELSE b

RECURSIVE SumOver(_, _)
SumOver(f, S) ==
    IF S = {} THEN 0
    ELSE LET x == CHOOSE x \in S : TRUE IN f[x] + SumOver(f, S \ {x})

\* severity_scores.get(severity, 0.35)
SeverityScore(severity) ==
    CASE severity = JStr("low") -> Lit02
      [] severity = JStr("medium") -> Lit035
      [] severity = JStr("high") -> Lit05
      [] OTHER -> Lit035

\* lines 255-260: the rule engine's share of the score
RuleComponent(rbm) ==
    IF DOMAIN rbm # {}
    THEN FAdd(Zero, FMin(FMulInt(SumOver(rbm, DOMAIN rbm), Lit01), Lit05))
    ELSE Zero

\* _calculate_vagueness_score; Raised when gemini_analysis has no .get or the
\* severity cannot be hashed
_calculate_vagueness_score(rbm, ga) ==
    LET rule == RuleComponent(rbm)
    IN  IF ~IsDict(ga) THEN Raised(AttributeError)
        ELSE IF Truthy(Get(ga, "is_vague", JNull))
             THEN LET severity == Get(ga, "severity", JStr("medium"))
                  IN  IF ~Hashable(severity) THEN Raised(TypeErrorMsg)
                      ELSE FMin(FAdd(rule, SeverityScore(severity)), One)
             ELSE FMin(rule, One)

\* IsVagueOf with the rule engine's matches left out
IsVagueLlmOnly(rbm, ga) ==
    IF ~IsDict(ga) THEN Raised(AttributeError) ELSE Get(ga, "is_vague", JBool(FALSE))

\* bool(rule_based_matches) or gemini_analysis.get('is_vague', False)
IsVagueOf(rbm, ga) ==
    IF DOMAIN rbm # {} THEN JBool(TRUE)
    ELSE IF ~IsDict(ga) THEN Raised(AttributeError)
    ELSE Get(ga, "is_vague", JBool(FALSE))

\* the classifier not in use
IdleDet(pc) ==
    /\ max_retries = 0 /\ rule_based_matches = <<>> /\ attempt = 0
    /\ outcomes = <<>> /\ gemini_analysis = JNull /\ det_result = JNull
    /\ det_args = <<>> /\ det_chunks = <<>> /\ det_i = 0 /\ det_results = <<>>
    /\ pcDet = pc

\* detect_vagueness_in_text, lines 112-116: the rule engine has run and
\* _analyze_with_gemini is entered; with max_retries = 0 its loop body never
\* runs and it returns None
DetStart ==
    /\ pcDet = "start"
    /\ attempt' = 0
    /\ gemini_analysis' = JNull
    /\ pcDet' = IF 0 < max_retries THEN "llm" ELSE "combine"
    /\ UNCHANGED <<max_retries, rule_based_matches, outcomes, det_result>>
    /\ UNCHANGED batchVars
    /\ UNCHANGED notDet

\* _analyze_with_gemini, lines 171-212: one pass of the retry loop
DetAttempt(outcome) ==
    /\ pcDet = "llm"
    /\ attempt < max_retries
    /\ outcomes' = Append(outcomes, outcome)
    /\ LET r == CallAndParse(outcome)
       IN  IF r.t # "raised"
           THEN /\ gemini_analysis' = r
                /\ pcDet' = "combine"
                /\ UNCHANGED attempt
           ELSE IF IsNetworkError(r.error) /\ AttemptsRemain(attempt, max_retries)
                THEN /\ attempt' = attempt + 1
                     /\ pcDet' = IF attempt + 1 < max_retries THEN "llm" ELSE "combine"
                     /\ UNCHANGED gemini_analysis
                ELSE /\ gemini_analysis' = Fallback(r.error)
                     /\ pcDet' = "combine"
                     /\ UNCHANGED attempt
    /\ UNCHANGED <<max_retries, rule_based_matches, det_result>>
    /\ UNCHANGED batchVars
    /\ UNCHANGED notDet

\* detect_vagueness_in_text, lines 118-132: the result dictionary, or the
\* exception its construction raises
DetCombine ==
    /\ pcDet = "combine"
    /\ LET is_vague == IsVagueOf(rule_based_matches, gemini_analysis)
           vagueness_score == _calculate_vagueness_score(rule_based_matches,
                                                         gemini_analysis)
       IN  IF is_vague.t = "raised"
           THEN det_result' = is_vague /\ pcDet' = "raised"
           ELSE IF vagueness_score.t = "raised"
           THEN det_result' = vagueness_score /\ pcDet' = "raised"
           ELSE /\ det_result' = MkObj({Field("chunk_id", det_args.chunk_id),
                                        Field("text", det_args.text),
                                        Field("is_vague", is_vague),
                                        Field("rule_based_matches",
                                              [t |-> "rules", m |-> rule_based_matches]),
                                        Field("gemini_analysis", gemini_analysis),
                                        Field("acronyms", JList(<<>>)),
                                        Field("vagueness_score", vagueness_score)})
                /\ pcDet' = "returned"
    /\ UNCHANGED <<max_retries, rule_based_matches, attempt, outcomes, gemini_analysis>>
    /\ UNCHANGED batchVars
    /\ UNCHANGED notDet

\* ------------------------------------------------------------ detect_batch
\* what the rule engine answers for a chunk of a batch: nothing, or one match
\* of one category
BatchRuleMaps ==
    {m \in RuleMaps : Cardinality(DOMAIN m) <= 1 /\ \A c \in DOMAIN m : m[c] = 1}

\* the answers of the LLM to the classifier prompt for a chunk of a batch
BatchOutcomes ==
    {LlmRaise(<<"Connect", "Timeout">>), LlmText(<<Prose("0")>>),
     LlmText(<<Doc(MkObj({Field("is_vague", JBool(TRUE)),
                          Field("severity", JStr("high"))}))>>)}

\* a chunk handed to detect_batch: what the chunker emitted, or a dict
\* without chunk_id and metadata
TextOnly(chunk) == [text |-> chunk.text]

\* chunk.get(key, default), the value as a JSON value
ChunkGet(chunk, key, default) ==
    IF key \notin DOMAIN chunk THEN default
    ELSE IF key = "text" THEN [t |-> "text", words |-> chunk.text]
    ELSE IF key = "chunk_id" THEN JStr(chunk.chunk_id)
    ELSE [t |-> "metadata", v |-> chunk[key]]

\* the loop of detect_batch reaches chunk i: text and chunk_id are read
\* (the index i standing in for a missing chunk_id), the rule engine runs
\* and detect_vagueness_in_text is entered
DetBatchNext ==
    /\ pcDet = "batch"
    /\ det_i < Len(det_chunks)
    /\ det_args' = [text |-> ChunkGet(det_chunks[det_i + 1], "text", JStr("")),
                    chunk_id |-> ChunkGet(det_chunks[det_i + 1], "chunk_id", JNum(det_i))]
    /\ rule_based_matches' \in BatchRuleMaps
    /\ pcDet' = "start"
    /\ UNCHANGED <<max_retries, attempt, outcomes, gemini_analysis, det_result,
                   det_chunks, det_i, det_results>>
    /\ UNCHANGED notDet

\* results.append(result) after the metadata was put on the last result
DetBatchAppendFirst(results, result) == <<result>> \o results

\* results.append(result)
DetBatchAppend(results, result) == Append(results, result)

\* lines 289-291: result['metadata'] = chunk.get('metadata', {}), and the
\* result is appended
DetBatchStore ==
    /\ pcDet = "returned"
    /\ det_i < Len(det_chunks)
    /\ det_results' =
           DetBatchAppend(det_results,
                          SetItem(det_result, "metadata",
                                  ChunkGet(det_chunks[det_i + 1], "metadata", JObj(<<>>))))
    /\ det_i' = det_i + 1
    /\ pcDet' = "batch"
    /\ UNCHANGED <<max_retries, rule_based_matches, attempt, outcomes, gemini_analysis,
                   det_result, det_args, det_chunks>>
    /\ UNCHANGED notDet

\* line 297: return results
DetBatchReturn ==
    /\ pcDet = "batch"
    /\ det_i = Len(det_chunks)
    /\ pcDet' = "batch_returned"
    /\ UNCHANGED <<max_retries, rule_based_matches, attempt, outcomes, gemini_analysis,
                   det_result>>
    /\ UNCHANGED batchVars
    /\ UNCHANGED notDet

\* ======================= embeddings/create_embeddings.py, analysis/cross_reference.py
NResults == 10
JudgeTop == 5
TopRelevant == 3

FileA == <<"a", ".", "p">>
FileB == <<"b", ".", "p">>

\* the chunks load_tender_documents hands to add_documents_to_collection: what
\* chunk_by_sentences emitted for two documents
TenderChunks ==
    << MakeChunk(BaseName(FileA), 0, << <<"a", ".">> >>, 0, 0, FileA),
       MakeChunk(BaseName(FileB), 0, << <<"a", "a", ".">> >>, 0, 0, FileB) >>

\* ids = [f"chunk_{chunk.get('chunk_id', i+j)}" ...]
StoredId(cid) == "chunk_" \o cid

\* add_documents_to_collection: the entry collection.add stores for a chunk
StoredEntry(chunk) ==
    [id |-> StoredId(chunk.chunk_id), document |-> chunk.text,
     metadata |-> [filename |-> chunk.metadata, chunk_id |-> chunk.chunk_id]]

RECURSIVE Perms(_)
Perms(S) ==
    IF S = {} THEN {<<>>}
    ELSE UNION {{<<x>> \o q : q \in Perms(S \ {x})} : x \in S}

\* search_similar: collection.query answers the n_results nearest entries in
\* order of distance, which the embedding decides: any n_results (or all, if
\* there are fewer) distinct entries in any order; Raised when the store fails
SearchSimilar(coll, n_results) ==
    LET idx == 1..Len(coll)
        n == Min(n_results, Len(coll))
    IN  {[t |-> "results", v |-> [q \in 1..n |-> coll[order[q]]]] :
            order \in UNION {Perms(T) : T \in {U \in SUBSET idx : Cardinality(U) = n}}}
        \cup {Raised(<<"collection", "error">>)}

\* search_related_chunks, lines 64-84: the formatted results, the entry whose
\* id equals exclude_chunk_id skipped
RECURSIVE FormatResults(_, _)
FormatResults(results, exclude_chunk_id) ==
    IF results = <<>> THEN <<>>
    ELSE IF Head(results).id = exclude_chunk_id
         THEN FormatResults(Tail(results), exclude_chunk_id)
         ELSE <<[text |-> Head(results).document, metadata |-> Head(results).metadata,
                 id |-> Head(results).id]>>
              \o FormatResults(Tail(results), exclude_chunk_id)

\* the objects the LLM may answer the relevance prompt with
JudgeObjects ==
    { MkObj({Field("is_relevant", JBool(TRUE)), Field("relevance_score", JNum(90)),
             Field("clarification_type", JStr("definition"))}),
      MkObj({Field("is_relevant", JBool(TRUE)), Field("relevance_score", JStr("high")),
             Field("clarification_type", JStr("definition"))}),
      MkObj({Field("is_relevant", JBool(TRUE)), Field("relevance_score", JNum(70)),
             Field("clarification_type", JList(<<JStr("example")>>))}),
      MkObj({Field("is_relevant", JBool(FALSE)), Field("relevance_score", JNum(20)),
             Field("clarification_type", JStr("none"))}) }

JudgeOutcomes ==
    {LlmRaise(<<"Connect", "Timeout">>), LlmText(<<Prose("0")>>),
     LlmText(<<Doc(JList(<<>>))>>),
     LlmText(<<FenceJson,
               Doc(MkObj({Field("is_relevant", JBool(TRUE)),
                          Field("relevance_score", JNum(50)),
                          Field("clarification_type", JStr("none"))})),
               Fence>>)}
    \cup {LlmText(<<Doc(o)>>) : o \in JudgeObjects}

ErrorText(prefix, error) == [t |-> "text", words |-> prefix \o error]

\* analyze_chunk_relevance, lines 137-170: the LLM's object with the chunk's
\* metadata added, or the degraded judgment when anything in the try raised
\* (assigning an item to a parsed value that is not a dict raises TypeError)
analyze_chunk_relevance(outcome, related_chunk) ==
    LET r == CallAndParse(outcome)
        error == IF r.t = "raised" THEN r.error ELSE TypeErrorMsg
    IN  IF r.t # "raised" /\ IsDict(r)
        THEN SetItem(SetItem(SetItem(r, "chunk_id", JStr(related_chunk.id)),
                             "source_document", JStr(Str(related_chunk.metadata.filename))),
                     "chunk_text", [t |-> "text", words |-> related_chunk.text])
        ELSE MkObj({Field("is_relevant", JBool(FALSE)),
                    Field("relevance_score", JNum(0)),
                    Field("clarification_type", JStr("none")),
                    Field("key_information", JStr("")),
                    Field("reasoning", ErrorText(<<"Error", "in", "analysis:">>, error)),
                    Field("chunk_id", JStr(related_chunk.id)),
                    Field("source_document", JStr(Str(related_chunk.metadata.filename))),
                    Field("chunk_text", [t |-> "text", words |-> related_chunk.text])})

\* RelevantOf without the filter on is_relevant
EveryJudgment(analyses) == analyses

\* RelevantOf stopping at the first judgment that is not relevant
RECURSIVE RelevantUntilIrrelevant(_)
RelevantUntilIrrelevant(analyses) ==
    IF analyses = <<>> THEN <<>>
    ELSE IF Truthy(Get(Head(analyses), "is_relevant", JBool(FALSE)))
         THEN <<Head(analyses)>> \o RelevantUntilIrrelevant(Tail(analyses))
         ELSE <<>>

\* [a for a in relevance_analyses if a.get('is_relevant', False)]
RECURSIVE RelevantOf(_)
RelevantOf(analyses) ==
    IF analyses = <<>> THEN <<>>
    ELSE IF Truthy(Get(Head(analyses), "is_relevant", JBool(FALSE)))
         THEN <<Head(analyses)>> \o RelevantOf(Tail(analyses))
         ELSE RelevantOf(Tail(analyses))

\* a Python number: int, float or bool
IsNumber(v) == v.t \in {"num", "bool"}
\* the float a parsed number is in arithmetic (JSON numbers in hundredths)
Hundredths == [n \in -100..100 |-> FLit(n, 100)]
NumOf(v) ==
    IF v.t = "bool" THEN (IF v.b THEN One ELSE Zero)
    ELSE IF v.n \in -100..100 THEN Hundredths[v.n] ELSE FLit(v.n, 100)

\* sum(xs): from 0, adding the items from left to right
RECURSIVE FSumFrom(_, _)
FSumFrom(acc, xs) == IF xs = <<>> THEN acc ELSE FSumFrom(FAdd(acc, Head(xs)), Tail(xs))
FSum(xs) == FSumFrom(Zero, xs)

\* TypeWeight with the weights of definition and example exchanged
TypeWeightSwapped(ct) ==
    CASE ct = JStr("definition") -> Lit02
      [] ct = JStr("specification") -> Lit03
      [] ct = JStr("standard") -> Lit03
      [] ct = JStr("example") -> Lit04
      [] OTHER -> Zero

\* type_weights.get(ct, 0)
TypeWeight(ct) ==
    CASE ct = JStr("definition") -> Lit04
      [] ct = JStr("specification") -> Lit03
      [] ct = JStr("standard") -> Lit03
      [] ct = JStr("example") -> Lit02
      [] OTHER -> Zero

\* Interpretation with "less than" for "at least"
InterpretationStrict(final_score) ==
    IF FLess(Lit08, final_score) THEN "strong_clarification"
    ELSE IF FLess(Lit06, final_score) THEN "moderate_clarification"
    ELSE IF FLess(Lit04, final_score) THEN "partial_clarification"
    ELSE "weak_clarification"

\* lines 233-244
Interpretation(final_score) ==
    IF FLeq(Lit08, final_score) THEN "strong_clarification"
    ELSE IF FLeq(Lit06, final_score) THEN "moderate_clarification"
    ELSE IF FLeq(Lit04, final_score) THEN "partial_clarification"
    ELSE "weak_clarification"

\* TypeBonus with the sum of the weights not divided by their number
TypeBonusSum(clarification_types) ==
    FSum([k \in 1..Len(clarification_types) |-> TypeWeight(clarification_types[k])])

\* line 225
TypeBonus(clarification_types) ==
    FDivInt(FSum([k \in 1..Len(clarification_types) |-> TypeWeight(clarification_types[k])]),
            Len(clarification_types))

\* lines 185-192: no judgment at all
NoInformation ==
    [t |-> "ok", score |-> Zero,
     reasoning |-> [score |-> Zero, interpretation |-> "no_information",
                    evidence_count |-> 0, clarification_types |-> {}]]

\* WeakConnection answered as if there had been no judgment
WeakConnectionAsNone ==
    [t |-> "ok", score |-> Zero,
     reasoning |-> [score |-> Zero, interpretation |-> "no_information",
                    evidence_count |-> 0, clarification_types |-> {}]]

\* lines 197-204: judgments, none of them relevant
WeakConnection ==
    [t |-> "ok", score |-> Lit01,
     reasoning |-> [score |-> Lit01, interpretation |-> "weak_connection",
                    evidence_count |-> 0, clarification_types |-> {}]]

\* calculate_cross_reference_score: the returned score and reasoning record
\* (clarification_types as the set the list is made from), or
\* Raised(TypeError) when a relevant judgment's relevance_score cannot be
\* summed, its clarification_type cannot be hashed, or a clarification type
\* other than 'none' cannot be joined as a string
calculate_cross_reference_score(analyses) ==
    LET relevant_chunks == RelevantOf(analyses)
        num_relevant == Len(relevant_chunks)
        scores == [k \in 1..num_relevant |-> Get(relevant_chunks[k], "relevance_score", JNum(0))]
        avg_relevance ==
            FDivInt(FSum([k \in 1..num_relevant |-> NumOf(scores[k])]), num_relevant)
        source_diversity ==
            Cardinality({Get(relevant_chunks[k], "source_document", JStr("")) :
                            k \in 1..num_relevant})
        diversity_bonus == FMin(FMulInt(source_diversity, Lit01), Lit03)
        clarification_types ==
            [k \in 1..num_relevant |-> Get(relevant_chunks[k], "clarification_type", JStr("none"))]
        type_bonus == TypeBonus(clarification_types)
        base_score == FHalf(avg_relevance)
        bonus_score == FHalf(FAdd(diversity_bonus, type_bonus))
        final_score == FMin(FAdd(base_score, bonus_score), One)
        unique_types == {clarification_types[k] : k \in 1..num_relevant} \ {JStr("none")}
    IN  IF analyses = <<>> THEN NoInformation
        ELSE IF relevant_chunks = <<>> THEN WeakConnection
        ELSE IF \E k \in 1..num_relevant : ~IsNumber(scores[k])
        THEN Raised(TypeErrorMsg)
        ELSE IF \E k \in 1..num_relevant : ~Hashable(clarification_types[k])
        THEN Raised(TypeErrorMsg)
        ELSE IF \E ct \in unique_types : ct.t # "str"
        THEN Raised(TypeErrorMsg)
        ELSE [t |-> "ok", score |-> final_score,
              reasoning |->
                  [score |-> final_score,
                   interpretation |-> Interpretation(final_score),
                   evidence_count |-> num_relevant,
                   clarification_types |-> unique_types,
                   source_diversity |-> source_diversity,
                   calculation_breakdown |->
                       [base_score |-> base_score, diversity_bonus |-> diversity_bonus,
                        type_bonus |-> type_bonus, final_score |-> final_score]]]

Take(s, n) == SubSeq(s, 1, Min(n, Len(s)))

\* the detection results handed to batch_analyze_cross_references: chunks of
\* the loaded documents with the vague phrases the classifier listed
MaxBatch == 2
MaxPhrases == 2
Phrases == <<"quality", "soon">>

Detection(chunk, n) ==
    [chunk_id |-> chunk.chunk_id, text |-> chunk.text,
     gemini_analysis |-> [vague_phrases |-> Take(Phrases, n)]]

RECURSIVE TotalPhrases(_)
TotalPhrases(batch) ==
    IF batch = <<>> THEN 0 ELSE Len(Head(batch).gemini_analysis.vague_phrases) + TotalPhrases(Tail(batch))

XrefBatches ==
    {b \in UNION {[1..n -> {Detection(TenderChunks[k], m) :
                              k \in 1..Len(TenderChunks), m \in 0..Len(Phrases)}] :
                  n \in 1..MaxBatch} :
        TotalPhrases(b) <= MaxPhrases}

\* the chunks handed to detect_batch
DetBatches ==
    UNION {[1..n -> {TenderChunks[1], TenderChunks[2], TextOnly(TenderChunks[1])}] :
              n \in 0..MaxBatch}

\* the analyzer not in use
IdleXref(pc) ==
    /\ collection = <<>> /\ vague_chunks = <<>> /\ ci = 0 /\ pj = 0
    /\ related_chunks = <<>> /\ relevance_analyses = <<>>
    /\ all_phrase_analyses = <<>> /\ analyzed_chunks = <<>> /\ xlog = <<>>
    /\ search_calls = <<>>
    /\ pcX = pc

\* load_tender_documents: create_collection(reset=True), then
\* add_documents_to_collection with all the chunks (one batch of batch_size)
XLoadChunks(stored) ==
    /\ pcX = "load"
    /\ collection' = [k \in 1..Len(stored) |-> StoredEntry(stored[k])]
    /\ pcX' = "chunk"
    /\ UNCHANGED <<vague_chunks, ci, pj, related_chunks, relevance_analyses,
                   all_phrase_analyses, analyzed_chunks, xlog, search_calls>>
    /\ UNCHANGED notXref

XLoad == XLoadChunks(TenderChunks)

\* Summary with "at least 0.3" for "more than 0.3"
SummaryAtLeast(chunk, analyses) ==
    LET overall_score ==
            IF analyses # <<>>
            THEN FDivInt(FSum([k \in 1..Len(analyses) |-> analyses[k].cross_reference_score]),
                         Len(analyses))
            ELSE Zero
    IN  [chunk_id |-> chunk.chunk_id,
         has_cross_references |-> FLeq(Lit03, overall_score),
         cross_reference_score |-> overall_score,
         phrase_analyses |-> analyses]

\* lines 293-299 and 342-354: the chunk's result
Summary(chunk, analyses) ==
    LET overall_score ==
            IF analyses # <<>>
            THEN FDivInt(FSum([k \in 1..Len(analyses) |-> analyses[k].cross_reference_score]),
                         Len(analyses))
            ELSE Zero
    IN  [chunk_id |-> chunk.chunk_id,
         has_cross_references |-> FLess(Lit03, overall_score),
         cross_reference_score |-> overall_score,
         phrase_analyses |-> analyses]

\* batch_analyze_cross_references picks the next chunk and
\* analyze_vague_chunk_cross_references begins (lines 289-301): a chunk
\* without vague phrases is answered at once
XChunk ==
    /\ pcX = "chunk"
    /\ ci < Len(vague_chunks)
    /\ LET chunk == vague_chunks[ci + 1]
       IN  IF chunk.gemini_analysis.vague_phrases = <<>>
           THEN /\ analyzed_chunks' = Append(analyzed_chunks, Summary(chunk, <<>>))
                /\ ci' = ci + 1
                /\ UNCHANGED pcX
           ELSE /\ pcX' = "search"
                /\ UNCHANGED <<analyzed_chunks, ci>>
    /\ pj' = 0 /\ all_phrase_analyses' = <<>>
    /\ related_chunks' = <<>> /\ relevance_analyses' = <<>>
    /\ UNCHANGED <<collection, vague_chunks, xlog, search_calls>>
    /\ UNCHANGED notXref

\* search_related_chunks for the phrase at hand; a failing search gives []
XSearchAnswered(answers) ==
    /\ pcX = "search"
    /\ \E results \in answers :
          /\ related_chunks' =
                 IF results.t = "results"
                 THEN FormatResults(results.v, vague_chunks[ci + 1].chunk_id)
                 ELSE <<>>
          /\ search_calls' = Append(search_calls, [ci |-> ci, pj |-> pj, results |-> results])
    /\ relevance_analyses' = <<>>
    /\ pcX' = "judge"
    /\ UNCHANGED <<collection, vague_chunks, ci, pj, all_phrase_analyses,
                   analyzed_chunks, xlog>>
    /\ UNCHANGED notXref

XSearch == XSearchAnswered(SearchSimilar(collection, NResults))

\* one pass of "for related_chunk in related_chunks[:5]": one LLM judgment
XJudge(outcome) ==
    /\ pcX = "judge"
    /\ Len(relevance_analyses) < Len(Take(related_chunks, JudgeTop))
    /\ LET related_chunk == related_chunks[Len(relevance_analyses) + 1]
       IN  /\ relevance_analyses' =
                 Append(relevance_analyses, analyze_chunk_relevance(outcome, related_chunk))
           /\ xlog' = Append(xlog, [ci |-> ci, pj |-> pj,
                                    k |-> Len(relevance_analyses) + 1,
                                    outcome |-> outcome])
    /\ UNCHANGED <<collection, vague_chunks, ci, pj, related_chunks,
                   all_phrase_analyses, analyzed_chunks, search_calls, pcX>>
    /\ UNCHANGED notXref

\* lines 325-354: the phrase's score and phrase_analysis; after the last
\* phrase the chunk's rollup, stored by batch_analyze_cross_references; an
\* exception of calculate_cross_reference_score leaves both functions
XScore ==
    /\ pcX = "judge"
    /\ Len(relevance_analyses) = Len(Take(related_chunks, JudgeTop))
    /\ \E scored \in {calculate_cross_reference_score(relevance_analyses)} :
       LET chunk == vague_chunks[ci + 1]
           phrase_analysis ==
               [vague_phrase |-> chunk.gemini_analysis.vague_phrases[pj + 1],
                related_chunks_found |-> Len(related_chunks),
                relevant_chunks_found |-> Len(RelevantOf(relevance_analyses)),
                cross_reference_score |->
                    IF scored.t = "raised" THEN Zero ELSE scored.score,
                reasoning |-> IF scored.t = "raised" THEN scored ELSE scored.reasoning,
                top_relevant_chunks |-> Take(RelevantOf(relevance_analyses), TopRelevant)]
           analyses == Append(all_phrase_analyses, phrase_analysis)
       IN  IF scored.t = "raised"
           THEN /\ pcX' = "raised"
                /\ UNCHANGED <<ci, pj, all_phrase_analyses, analyzed_chunks>>
           ELSE IF pj + 1 < Len(chunk.gemini_analysis.vague_phrases)
           THEN /\ pj' = pj + 1
                /\ all_phrase_analyses' = analyses
                /\ pcX' = "search"
                /\ UNCHANGED <<ci, analyzed_chunks>>
           ELSE /\ analyzed_chunks' = Append(analyzed_chunks, Summary(chunk, analyses))
                /\ all_phrase_analyses' = analyses
                /\ ci' = ci + 1
                /\ pcX' = "chunk"
                /\ UNCHANGED pj
    /\ UNCHANGED <<collection, vague_chunks, related_chunks, relevance_analyses, xlog,
                   search_calls>>
    /\ UNCHANGED notXref

\* batch_analyze_cross_references returns analyzed_chunks
XReturn ==
    /\ pcX = "chunk"
    /\ ci = Len(vague_chunks)
    /\ pcX' = "returned"
    /\ UNCHANGED <<collection, vague_chunks, ci, pj, related_chunks, relevance_analyses,
                   all_phrase_analyses, analyzed_chunks, xlog, search_calls>>
    /\ UNCHANGED notXref

\* ------------------------ the analyzer over a collection of many chunks
MaxStored == 11

\* what chunk_by_sentences emitted for one long document
ManyChunks ==
    [k \in 1..MaxStored |->
        MakeChunk(BaseName(FileA), k - 1, << <<"a", ".">> >>, k - 1, k - 1, FileA)]

\* the sizes of the collection: smaller than the 3 judgments kept, between
\* the 5 judged and the 10 retrieved, and more than are retrieved
StoredCounts == {2, 7, MaxStored}

XLoadMany == \E n \in StoredCounts : XLoadChunks(Take(ManyChunks, n))

\* search_similar over the larger collection: of the orders of distance the
\* embedding may give, the n_results entries nearest from entry r on
\* (wrapping around), for every r; Raised when the store fails
NearestFrom(coll, n_results) ==
    {[t |-> "results",
      v |-> [q \in 1..Min(n_results, Len(coll)) |-> coll[((r + q - 2) % Len(coll)) + 1]]] :
        r \in 1..Len(coll)}
    \cup {Raised(<<"collection", "error">>)}

XSearchMany == XSearchAnswered(NearestFrom(collection, NResults))

\* the answers of the judge: a failed call, a relevant and an irrelevant chunk
EvidenceOutcomes ==
    {LlmRaise(<<"Connect", "Timeout">>),
     LlmText(<<Doc(MkObj({Field("is_relevant", JBool(TRUE)),
                          Field("relevance_score", JNum(90)),
                          Field("clarification_type", JStr("definition"))}))>>),
     LlmText(<<Doc(MkObj({Field("is_relevant", JBool(FALSE)),
                          Field("relevance_score", JNum(20)),
                          Field("clarification_type", JStr("none"))}))>>)}

\* one flagged chunk of the document, with one vague phrase or none
EvidenceBatches == {<<Detection(ManyChunks[k], m)>> : k \in 1..2, m \in 0..1}

\* ---------------------------- calculate_cross_reference_score on its own
MaxJudgments == 3

\* a judgment as analyze_chunk_relevance returns it
Judgment(rel, score, ct, src) ==
    MkObj({Field("is_relevant", JBool(rel)), Field("relevance_score", JNum(score)),
           Field("clarification_type", JStr(ct)), Field("source_document", JStr(src))})

ScoreJudgments ==
    { Judgment(TRUE, 90, "definition", "a.p"), Judgment(TRUE, 70, "example", "b.p"),
      Judgment(TRUE, 10, "definition", "a.p"), Judgment(TRUE, 20, "definition", "b.p"),
      Judgment(TRUE, 40, "specification", "b.p"), Judgment(TRUE, 100, "definition", "b.p"),
      Judgment(TRUE, 40, "standard", "a.p"),
      Judgment(TRUE, 0, "none", "a.p"),
      Judgment(TRUE, -100, "none", "a.p"), Judgment(FALSE, 20, "none", "a.p") }

\* the lists that hold the same judgments as js, in every order
Reorderings(js) == {[k \in 1..Len(js) |-> js[p[k]]] : p \in Perms(1..Len(js))}

\* the scorer not in use
IdleScore(pc) == judgments = <<>> /\ score_calls = <<>> /\ pcScore = pc

\* a call of calculate_cross_reference_score: the first one with the
\* judgments as they are listed, a second one with them in any order
ScoreCall ==
    /\ pcScore = "score"
    /\ Len(score_calls) < 2
    /\ \E analyses \in (IF score_calls = <<>> THEN {judgments} ELSE Reorderings(judgments)) :
          score_calls' = Append(score_calls,
                                [analyses |-> analyses,
                                 result |-> calculate_cross_reference_score(analyses)])
    /\ UNCHANGED <<judgments, pcScore>>
    /\ UNCHANGED notScore

\* ========================================= rag/retriever.py, rag/suggestion_agent.py
RetrieveN == 3

\* the reference_documents collection
ReferenceEntries ==
    << [id |-> StoredId("is_chunk_0"), document |-> <<"a", ".">>,
        metadata |-> [filename |-> <<"i", "s", ".", "p">>, chunk_id |-> "is_chunk_0"]],
       [id |-> StoredId("cp_chunk_0"), document |-> <<"a", "a", ".">>,
        metadata |-> [filename |-> <<"c", "p", ".", "p">>, chunk_id |-> "cp_chunk_0"]] >>

\* retrieve_for_phrase: the formatted results of search_similar, [] when the
\* search raised; the distance of a result stands as the query (the position
\* of the term) and the rank it has in that query's answer
retrieve_for_phrase(results, term) ==
    IF results.t = "results"
    THEN [k \in 1..Len(results.v) |->
             [text |-> results.v[k].document, metadata |-> results.v[k].metadata,
              distance |-> [query |-> term, rank |-> k],
              id |-> results.v[k].id]]
    ELSE <<>>

\* "for term in search_terms" can run: lists, strings and dicts are iterable
Iterable(v) == v.t \in {"list", "str", "object"}
\* the number of terms the loop visits
NumTerms(v) ==
    CASE v.t = "list" -> Len(v.xs)
      [] v.t = "str" -> Len(v.s)
      [] v.t = "object" -> Cardinality(DOMAIN v.f)
      [] OTHER -> 0

\* UniqueById with unique_chunks[chunk_id] = chunk done for every chunk: the
\* place of the first occurrence, the value of the last
RECURSIVE UniqueByIdKeepLast(_, _)
UniqueByIdKeepLast(cs, seen) ==
    IF cs = <<>> THEN <<>>
    ELSE IF Head(cs).id # "" /\ Head(cs).id \notin seen
         THEN LET last == CHOOSE j \in 1..Len(cs) :
                              /\ cs[j].id = Head(cs).id
                              /\ \A q \in j + 1..Len(cs) : cs[q].id # Head(cs).id
              IN  <<cs[last]>> \o UniqueByIdKeepLast(Tail(cs), seen \cup {Head(cs).id})
         ELSE UniqueByIdKeepLast(Tail(cs), seen)

\* the "remove duplicates based on id" loop: first occurrence of each id
RECURSIVE UniqueById(_, _)
UniqueById(cs, seen) ==
    IF cs = <<>> THEN <<>>
    ELSE IF Head(cs).id # "" /\ Head(cs).id \notin seen
         THEN <<Head(cs)>> \o UniqueById(Tail(cs), seen \cup {Head(cs).id})
         ELSE UniqueById(Tail(cs), seen)

\* lines 109-111: all_chunks, given what each term's search answered
ExtendAll(searches) ==
    Flatten([k \in 1..Len(searches) |-> retrieve_for_phrase(searches[k], k)])

\* retrieve_relevant_chunks, given what each term's search answered
retrieve_relevant_chunks(searches) == UniqueById(ExtendAll(searches), {})

\* identify_source_documents, lines 69-88: whatever json.loads returned, or
\* the fallback
identify_source_documents(outcome, vague_phrase) ==
    LET r == CallAndParse(outcome)
    IN  IF r.t # "raised" THEN r
        ELSE MkObj({Field("suggested_documents", JList(<<>>)),
                    Field("search_terms", JList(<<JStr(vague_phrase)>>)),
                    Field("reasoning", ErrorText(<<"Error:">>, r.error))})

\* generate_suggestion, lines 174-203: the LLM's object with the metadata
\* added, or the degraded suggestion when anything in the try raised
generate_suggestion(outcome, vague_text, vague_phrase, reference_context) ==
    LET r == CallAndParse(outcome)
        error == IF r.t = "raised" THEN r.error ELSE TypeErrorMsg
        original == [t |-> "text", words |-> vague_text]
    IN  IF r.t # "raised" /\ IsDict(r)
        THEN SetItem(SetItem(SetItem(r, "original_text", original),
                             "vague_phrase", JStr(vague_phrase)),
                     "reference_chunks_used", JNum(100 * Len(reference_context)))
        ELSE MkObj({Field("improved_text", original),
                    Field("specific_changes", JList(<<>>)),
                    Field("standards_referenced", JList(<<>>)),
                    Field("explanation",
                          ErrorText(<<"Error", "generating", "suggestion:">>, error)),
                    Field("original_text", original),
                    Field("vague_phrase", JStr(vague_phrase)),
                    Field("reference_chunks_used", JNum(0))})

\* the objects the LLM may answer the two prompts with
IdentifyObjects ==
    { MkObj({Field("suggested_documents", JList(<<JStr("IS 456")>>)),
             Field("search_terms", JList(<<JStr("concrete"), JStr("grade")>>))}),
      MkObj({Field("suggested_documents", JList(<<>>))}),
      MkObj({Field("search_terms", JNull)}),
      MkObj({Field("search_terms", JStr("ab"))}) }

IdentifyOutcomes ==
    {LlmRaise(<<"Connect", "Timeout">>), LlmText(<<Prose("0")>>),
     LlmText(<<Doc(JList(<<>>))>>)}
    \cup {LlmText(<<Doc(o)>>) : o \in IdentifyObjects}

GenerateOutcomes ==
    {LlmRaise(<<"Connect", "Timeout">>), LlmText(<<Prose("0")>>),
     LlmText(<<Doc(JList(<<>>))>>),
     LlmText(<<Doc(MkObj({Field("improved_text", JStr("use M25 concrete")),
                          Field("specific_changes", JList(<<JStr("grade")>>)),
                          Field("standards_referenced", JList(<<JStr("IS 456")>>)),
                          Field("explanation", JStr("measurable"))}))>>)}

\* the answers of the LLM to the two prompts in a run of the three stages
StageIdentifyOutcomes ==
    {LlmRaise(<<"Connect", "Timeout">>),
     LlmText(<<Doc(MkObj({Field("suggested_documents", JList(<<>>))}))>>)}

StageGenerateOutcomes ==
    {LlmRaise(<<"Connect", "Timeout">>),
     LlmText(<<Doc(MkObj({Field("improved_text", JStr("use M25 concrete")),
                          Field("specific_changes", JList(<<JStr("grade")>>)),
                          Field("standards_referenced", JList(<<JStr("IS 456")>>)),
                          Field("explanation", JStr("measurable"))}))>>)}

\* the detection results handed to process_batch
MaxResults == 2
SugDetection(chunk, vague, n, m) ==
    [chunk_id |-> chunk.chunk_id, text |-> chunk.text, is_vague |-> vague,
     gemini_analysis |-> [vague_phrases |-> Take(Phrases, n),
                          categories |-> Take(<<"Abstractness">>, m)]]

SugBatches ==
    {b \in UNION {[1..n -> {SugDetection(TenderChunks[k], v, p, m) :
                              k \in 1..Len(TenderChunks), v \in BOOLEAN,
                              p \in 0..Len(Phrases), m \in 0..1}] :
                  n \in 1..MaxResults} :
        TotalPhrases(b) <= MaxPhrases}

\* the agent not in use
IdleSug(pc) ==
    /\ detection_results = <<>> /\ si = 0 /\ sp = 0 /\ doc_suggestions = JNull
    /\ query_count = 0 /\ all_chunks = <<>>
    /\ retrieved_chunks = <<>> /\ suggestions = <<>> /\ processed_results = <<>>
    /\ slog = <<>> /\ pcS = pc

WithSuggestions(result, sugs) ==
    [chunk_id |-> result.chunk_id, text |-> result.text, is_vague |-> result.is_vague,
     gemini_analysis |-> result.gemini_analysis, suggestions |-> sugs]

\* process_batch takes the next result: one that is not vague is passed on
\* as it is; for a vague one process_vague_chunk begins, and is done at once
\* when there is no vague phrase
SNext ==
    /\ pcS = "batch"
    /\ si < Len(detection_results)
    /\ LET result == detection_results[si + 1]
       IN  IF ~result.is_vague
           THEN /\ processed_results' = Append(processed_results, result)
                /\ si' = si + 1
                /\ UNCHANGED pcS
           ELSE IF result.gemini_analysis.vague_phrases = <<>>
           THEN /\ processed_results' =
                      Append(processed_results, WithSuggestions(result, <<>>))
                /\ si' = si + 1
                /\ UNCHANGED pcS
           ELSE /\ pcS' = "identify"
                /\ UNCHANGED <<processed_results, si>>
    /\ sp' = 0 /\ suggestions' = <<>>
    /\ doc_suggestions' = JNull /\ retrieved_chunks' = <<>>
    /\ query_count' = 0 /\ all_chunks' = <<>>
    /\ UNCHANGED <<detection_results, slog>>
    /\ UNCHANGED notSug

\* step 1 and line 229: identify_source_documents, then
\* doc_suggestions.get('search_terms', []) for the log line, which raises
\* AttributeError when the parsed value is not a dict
SIdentify(outcome) ==
    /\ pcS = "identify"
    /\ LET phrase == detection_results[si + 1].gemini_analysis.vague_phrases[sp + 1]
           ds == identify_source_documents(outcome, phrase)
       IN  /\ doc_suggestions' = ds
           /\ pcS' = IF IsDict(ds) THEN "retrieve" ELSE "raised"
    /\ slog' = Append(slog, [si |-> si, sp |-> sp, step |-> "identify",
                             outcome |-> outcome])
    /\ UNCHANGED <<detection_results, si, sp, query_count, all_chunks,
                   retrieved_chunks, suggestions,
                   processed_results>>
    /\ UNCHANGED notSug

\* step 2: retrieve_relevant_chunks; iterating search_terms raises TypeError
\* when it is not iterable
SRetrieve ==
    /\ pcS = "retrieve"
    /\ LET phrase == detection_results[si + 1].gemini_analysis.vague_phrases[sp + 1]
           search_terms == Get(doc_suggestions, "search_terms", JList(<<JStr(phrase)>>))
       IN  IF ~Iterable(search_terms)
           THEN /\ pcS' = "raised"
                /\ UNCHANGED <<query_count, all_chunks, retrieved_chunks>>
           ELSE /\ \E searches \in [1..NumTerms(search_terms) ->
                                       SearchSimilar(ReferenceEntries, RetrieveN)] :
                       /\ all_chunks' = ExtendAll(searches)
                       /\ retrieved_chunks' = retrieve_relevant_chunks(searches)
                /\ query_count' = NumTerms(search_terms)
                /\ pcS' = "generate"
    /\ UNCHANGED <<detection_results, si, sp, doc_suggestions, suggestions,
                   processed_results, slog>>
    /\ UNCHANGED notSug

\* step 3 and the rest of the loop body: generate_suggestion and the
\* complete_suggestion; after the last phrase the result gets its suggestions
\* and process_batch appends it
SGenerate(outcome) ==
    /\ pcS = "generate"
    /\ LET result == detection_results[si + 1]
           phrase == result.gemini_analysis.vague_phrases[sp + 1]
           categories == result.gemini_analysis.categories
           category == IF sp < Len(categories) THEN categories[sp + 1] ELSE "Unknown"
           suggestion == generate_suggestion(outcome, result.text, phrase, retrieved_chunks)
           complete_suggestion ==
               [vague_phrase |-> phrase, category |-> category,
                document_suggestions |-> doc_suggestions,
                retrieved_chunks_count |-> Len(retrieved_chunks),
                retrieved_chunks |-> retrieved_chunks,
                suggestion |-> suggestion]
           sugs == Append(suggestions, complete_suggestion)
       IN  IF sp + 1 < Len(result.gemini_analysis.vague_phrases)
           THEN /\ sp' = sp + 1
                /\ suggestions' = sugs
                /\ pcS' = "identify"
                /\ UNCHANGED <<si, processed_results>>
           ELSE /\ processed_results' =
                      Append(processed_results, WithSuggestions(result, sugs))
                /\ suggestions' = sugs
                /\ si' = si + 1
                /\ pcS' = "batch"
                /\ UNCHANGED sp
    /\ slog' = Append(slog, [si |-> si, sp |-> sp, step |-> "generate",
                             outcome |-> outcome])
    /\ UNCHANGED <<detection_results, doc_suggestions, query_count, all_chunks,
                   retrieved_chunks>>
    /\ UNCHANGED notSug

\* process_batch returns processed_results
SReturn ==
    /\ pcS = "batch"
    /\ si = Len(detection_results)
    /\ pcS' = "returned"
    /\ UNCHANGED <<detection_results, si, sp, doc_suggestions, query_count, all_chunks,
                   retrieved_chunks,
                   suggestions, processed_results, slog>>
    /\ UNCHANGED notSug

\* ============ app/streamlit_frontend.py, embeddings/create_embeddings.py
\* the documents extracted from the uploaded files
DocTexts == { <<"a", ".">>, <<"a", ".", " ", "a", "a", ".">> }
MaxDocs == 2
MaxBatchSize == 2
\* TextChunker(chunk_size=500, overlap=100), in the scale of DocTexts
LoadChunkSize == 3
LoadOverlap == 1
\* chunk['text'][:200]
PreviewLen == 200

Document(filename, full_text) == [filename |-> filename, full_text |-> full_text]

\* lists of documents with pairwise distinct filenames
DocumentLists ==
    {ds \in UNION {[1..n -> {Document(f, t) : f \in Filenames, t \in DocTexts}] :
                      n \in 1..MaxDocs} :
        \A j, k \in DOMAIN ds : ds[j].filename = ds[k].filename => j = k}

\* the loader not in use
IdleLoad(pc) ==
    /\ all_docs = <<>> /\ di = 0 /\ doc_metadatas = <<>> /\ tender_chunks = <<>>
    /\ batch_size = 0 /\ batch_i = 0 /\ tender_collection = <<>> /\ pcLoad = pc

\* load_tender_documents line 501 and chunk_document lines 171-180: the
\* metadata dict of the next document is made (doc_metadatas holds the dicts,
\* a chunk refers to its document's dict by its place there) and
\* chunk_by_sentences is entered with it
LoadChunkDocument ==
    /\ pcLoad = "chunk"
    /\ di < Len(all_docs)
    /\ pcChunk = "idle"
    /\ doc_metadatas' = Append(doc_metadatas, [filename |-> all_docs[di + 1].filename])
    /\ text' = all_docs[di + 1].full_text
    /\ doc_metadata' = all_docs[di + 1].filename
    /\ chunk_size' = LoadChunkSize /\ overlap' = LoadOverlap
    /\ sentences' = <<>> /\ base_name' = <<>> /\ chunks' = <<>>
    /\ current_chunk' = <<>> /\ current_length' = 0 /\ chunk_id' = 0
    /\ i' = 0 /\ carried' = <<>>
    /\ pcChunk' = "start"
    /\ UNCHANGED <<all_docs, di, tender_chunks, batch_size, batch_i,
                   tender_collection, pcLoad>>
    /\ UNCHANGED notLoad

\* line 502, all_chunks.extend(chunks): every chunk holds a reference to the
\* one metadata dict of its document (chunk_text.py line 86)
LoadExtend ==
    /\ pcLoad = "chunk"
    /\ pcChunk = "done"
    /\ tender_chunks' =
          tender_chunks \o [k \in 1..Len(chunks) |->
                               [chunk_id |-> chunks[k].chunk_id, text |-> chunks[k].text,
                                metadata |-> di + 1]]
    /\ di' = di + 1
    /\ pcChunk' = "idle"
    /\ UNCHANGED <<text, doc_metadata, chunk_size, overlap, sentences, base_name,
                   chunks, current_chunk, current_length, chunk_id, i, carried>>
    /\ UNCHANGED <<all_docs, doc_metadatas, batch_size, batch_i, tender_collection,
                   pcLoad>>
    /\ UNCHANGED notLoad

\* lines 508-515 and add_documents_to_collection lines 79-82:
\* create_collection(reset=True) leaves an empty collection
AddStart ==
    /\ pcLoad = "chunk"
    /\ di = Len(all_docs)
    /\ pcChunk = "idle"
    /\ tender_collection' = <<>>
    /\ batch_i' = 0
    /\ pcLoad' = "add"
    /\ UNCHANGED <<all_docs, di, doc_metadatas, tender_chunks, batch_size>>
    /\ UNCHANGED chunkVars
    /\ UNCHANGED notLoad

\* what a pass of the batch loop meets: the embedding model raises, the
\* store raises, or both work
AddOutcomes == {"encode_raises", "add_raises", "ok"}

\* dict item assignment on the dict a reference points to
SetKey(md, k, v) == [x \in DOMAIN md \cup {k} |-> IF x = k THEN v ELSE md[x]]

\* lines 95-100: the loop "for chunk in batch" over the metadata dicts, from
\* the k-th chunk of the batch on
RECURSIVE PrepareMetadata(_, _, _)
PrepareMetadata(heap, batch, k) ==
    IF k > Len(batch) THEN heap
    ELSE LET ref == batch[k].metadata
             metadata == SetKey(SetKey(heap[ref], "chunk_id", batch[k].chunk_id),
                                "text_preview", Take(batch[k].text, PreviewLen))
         IN  PrepareMetadata([heap EXCEPT ![ref] = metadata], batch, k + 1)

\* collection.add: an entry per id that the collection does not hold yet
RECURSIVE AddEntries(_, _)
AddEntries(coll, entries) ==
    IF entries = <<>> THEN coll
    ELSE IF \E k \in 1..Len(coll) : coll[k].id = Head(entries).id
         THEN AddEntries(coll, Tail(entries))
         ELSE AddEntries(Append(coll, Head(entries)), Tail(entries))

\* add_documents_to_collection, lines 84-110: one pass of the batch loop.
\* The dicts appended to metadatas are the documents' dicts themselves, so
\* collection.add reads them as the whole loop of lines 95-100 left them; it
\* raises when two ids of the batch are equal.
AddBatch(outcome) ==
    /\ pcLoad = "add"
    /\ batch_i < Len(tender_chunks)
    /\ LET batch == SubSeq(tender_chunks, batch_i + 1,
                           Min(batch_i + batch_size, Len(tender_chunks)))
           ids == [j \in 1..Len(batch) |-> StoredId(batch[j].chunk_id)]
           heap == PrepareMetadata(doc_metadatas, batch, 1)
           entries == [j \in 1..Len(batch) |->
                          [id |-> ids[j], document |-> batch[j].text,
                           metadata |-> heap[batch[j].metadata]]]
           duplicate == \E j, k \in 1..Len(batch) : j # k /\ ids[j] = ids[k]
       IN  IF outcome = "encode_raises"
           THEN /\ pcLoad' = "raised"
                /\ UNCHANGED <<doc_metadatas, tender_collection, batch_i>>
           ELSE IF outcome = "add_raises" \/ duplicate
           THEN /\ doc_metadatas' = heap
                /\ pcLoad' = "raised"
                /\ UNCHANGED <<tender_collection, batch_i>>
           ELSE /\ doc_metadatas' = heap
                /\ tender_collection' = AddEntries(tender_collection, entries)
                /\ batch_i' = batch_i + batch_size
                /\ UNCHANGED pcLoad
    /\ UNCHANGED <<all_docs, di, tender_chunks, batch_size>>
    /\ UNCHANGED chunkVars
    /\ UNCHANGED notLoad

\* line 112: every batch was added
AddReturn ==
    /\ pcLoad = "add"
    /\ batch_i >= Len(tender_chunks)
    /\ pcLoad' = "returned"
    /\ UNCHANGED <<all_docs, di, doc_metadatas, tender_chunks, batch_size, batch_i,
                   tender_collection>>
    /\ UNCHANGED chunkVars
    /\ UNCHANGED notLoad

\* ================================================ preprocessing/pdf_to_text.py
MaxPages == 3
MaxWorkers == 2

\* page.get_text("text") of a page: a text, or BadPage when it raises
BadPage == <<"error">>
PageTexts == {<<>>, <<" ">>, <<"a">>, <<"a", " ">>}

\* None
NonePage == [none |-> TRUE]

\* the extractor not in use
IdlePdf(pc) ==
    /\ doc = <<>> /\ max_workers = 0 /\ futures = <<>> /\ consumed = <<>>
    /\ page_texts = <<>> /\ extracted = <<>> /\ pcPdf = pc

\* lines 116-127: page_texts = [None] * len(doc), then one
\* executor.submit(extract_single_page, i) for i in range(len(doc)); the
\* workers run while the later tasks are submitted
PdfSubmit ==
    /\ pcPdf = "submit"
    /\ Len(futures) < Len(doc)
    /\ futures' = Append(futures, [state |-> "pending", page_num |-> Len(futures),
                                   text |-> <<>>])
    /\ pcPdf' = IF Len(futures) + 1 = Len(doc) THEN "collect" ELSE "submit"
    /\ UNCHANGED <<doc, max_workers, consumed, page_texts, extracted>>
    /\ UNCHANGED notPdf

\* a thread of the pool takes the task at the head of the work queue, and
\* extract_single_page line 119 loads its page; at most max_workers tasks
\* are under way at a time
WorkerStart(k) ==
    /\ k \in 1..Len(futures)
    /\ futures[k].state = "pending"
    /\ \A j \in 1..k - 1 : futures[j].state # "pending"
    /\ Cardinality({j \in 1..Len(futures) : futures[j].state = "running"}) < max_workers
    /\ futures' = [futures EXCEPT ![k].state = "running"]
    /\ UNCHANGED <<doc, max_workers, consumed, page_texts, extracted, pcPdf>>
    /\ UNCHANGED notPdf

\* extract_single_page lines 120-121: the text of the page is read and the
\* future is done, with (page_num, text) or with the exception get_text raised
WorkerFinish(k) ==
    /\ k \in 1..Len(futures)
    /\ futures[k].state = "running"
    /\ futures' = [futures EXCEPT ![k].state =
                                      IF doc[futures[k].page_num + 1] = BadPage
                                      THEN "failed" ELSE "done",
                                  ![k].text = doc[futures[k].page_num + 1]]
    /\ UNCHANGED <<doc, max_workers, consumed, page_texts, extracted, pcPdf>>
    /\ UNCHANGED notPdf

Finished(k) == futures[k].state \in {"done", "failed"}

\* page_texts[page_num] = {...} written past the pages already stored
\* instead of at the page's own place
StorePageInOrderOfCompletion(pts, page_num, txt) ==
    LET free == {q \in 1..Len(pts) : pts[q] = NonePage}
        first == CHOOSE q \in free : \A m \in free : q <= m
    IN  [pts EXCEPT ![first] = [page_num |-> page_num + 1, text |-> txt]]

\* lines 132-135: page_texts[page_num] = {'page_num': page_num + 1, 'text': text}
StorePage(pts, page_num, txt) ==
    [pts EXCEPT ![page_num + 1] = [page_num |-> page_num + 1, text |-> txt]]

\* lines 129-135: as_completed hands over a future that is finished and was
\* not handed over before (consumed lists the futures in the order they were
\* handed over); future.result() raises what the task raised, and
\* the with block is left with the exception
PdfCollect(k) ==
    /\ pcPdf = "collect"
    /\ k \in 1..Len(futures) \ {consumed[m] : m \in 1..Len(consumed)}
    /\ Finished(k)
    /\ consumed' = Append(consumed, k)
    /\ IF futures[k].state = "failed"
       THEN pcPdf' = "unwind" /\ UNCHANGED page_texts
       ELSE /\ page_texts' =
                  IF futures[k].text # <<>> /\ Strip(futures[k].text) # <<>>
                  THEN StorePage(page_texts, futures[k].page_num, futures[k].text)
                  ELSE page_texts
            /\ UNCHANGED pcPdf
    /\ UNCHANGED <<doc, max_workers, futures, extracted>>
    /\ UNCHANGED notPdf

\* [p for p in page_texts if p is not None]
RECURSIVE FilterNone(_)
FilterNone(pts) ==
    IF pts = <<>> THEN <<>>
    ELSE IF Head(pts) = NonePage THEN FilterNone(Tail(pts))
    ELSE <<Head(pts)>> \o FilterNone(Tail(pts))

\* lines 123 and 137-138: the with block ends with executor.shutdown(wait=True),
\* which waits for every task, and the pages that are not None are returned
PdfReturn ==
    /\ pcPdf = "collect"
    /\ {consumed[m] : m \in 1..Len(consumed)} = 1..Len(doc)
    /\ \A k \in 1..Len(futures) : Finished(k)
    /\ extracted' = FilterNone(page_texts)
    /\ pcPdf' = "returned"
    /\ UNCHANGED <<doc, max_workers, futures, consumed, page_texts>>
    /\ UNCHANGED notPdf

\* the with block left by an exception: shutdown(wait=True) all the same,
\* then the exception leaves _extract_pages_parallel
PdfRaise ==
    /\ pcPdf = "unwind"
    /\ \A k \in 1..Len(futures) : Finished(k)
    /\ pcPdf' = "raised"
    /\ UNCHANGED <<doc, max_workers, futures, consumed, page_texts, extracted>>
    /\ UNCHANGED notPdf

\* ======================================================== specifications
\* the segmenter on its own
InitChunk ==
    /\ text \in SeqsUpTo(TextChars, MaxTextLen)
    /\ doc_metadata \in Filenames \cup {NoMetadata}
    /\ chunk_size \in 1..MaxChunkSize
    /\ overlap \in 0..MaxOverlap
    /\ sentences = <<>> /\ base_name = <<>> /\ chunks = <<>>
    /\ current_chunk = <<>> /\ current_length = 0 /\ chunk_id = 0
    /\ i = 0 /\ carried = <<>> /\ pcChunk = "start"
    /\ IdleDet("idle") /\ IdleXref("idle") /\ IdleSug("idle")
    /\ IdleScore("idle") /\ IdleLoad("idle") /\ IdlePdf("idle")

NextChunk == ChunkStart \/ ChunkLoop \/ ChunkFinish

SpecChunk == InitChunk /\ [][NextChunk]_vars

\* the paragraph mode of the segmenter on its own: texts made of up to
\* MaxPieces pieces, words around the length limit, blanks and newlines
MaxPieces == 4
LongWord(n) == [k \in 1..n |-> "a"]
ParaPieces ==
    {LongWord(ParagraphMin - 1), LongWord(ParagraphMin), LongWord(ParagraphMin + 1),
     <<" ">>, <<"\n">>, <<"\n", "\n">>}

InitPara ==
    /\ text \in {Flatten(ps) : ps \in SeqsUpTo(ParaPieces, MaxPieces)}
    /\ doc_metadata \in Filenames \cup {NoMetadata}
    /\ chunk_size = 0 /\ overlap = 0
    /\ sentences = <<>> /\ base_name = <<>> /\ chunks = <<>>
    /\ current_chunk = <<>> /\ current_length = 0 /\ chunk_id = 0
    /\ i = 0 /\ carried = <<>> /\ pcChunk = "paragraphs"
    /\ IdleDet("idle") /\ IdleXref("idle") /\ IdleSug("idle")
    /\ IdleScore("idle") /\ IdleLoad("idle") /\ IdlePdf("idle")

NextPara == ChunkByParagraphs

SpecPara == InitPara /\ [][NextPara]_vars

\* the classifier on its own
InitDet ==
    /\ max_retries \in 0..MaxMaxRetries
    /\ rule_based_matches \in RuleMaps
    /\ attempt = 0 /\ outcomes = <<>> /\ gemini_analysis = JNull
    /\ det_result = JNull /\ pcDet = "start"
    /\ det_args = [text |-> JStr("text"), chunk_id |-> JNum(0)]
    /\ det_chunks = <<>> /\ det_i = 0 /\ det_results = <<>>
    /\ IdleChunk("idle") /\ IdleXref("idle") /\ IdleSug("idle")
    /\ IdleScore("idle") /\ IdleLoad("idle") /\ IdlePdf("idle")

NextDet == DetStart \/ (\E outcome \in DetOutcomes : DetAttempt(outcome)) \/ DetCombine

SpecDet == InitDet /\ [][NextDet]_vars

\* detect_batch over a list of chunks
InitDetBatch ==
    /\ max_retries \in 1..2
    /\ det_chunks \in DetBatches
    /\ rule_based_matches = <<>> /\ attempt = 0 /\ outcomes = <<>>
    /\ gemini_analysis = JNull /\ det_result = JNull
    /\ det_args = <<>> /\ det_i = 0 /\ det_results = <<>>
    /\ pcDet = "batch"
    /\ IdleChunk("idle") /\ IdleXref("idle") /\ IdleSug("idle")
    /\ IdleScore("idle") /\ IdleLoad("idle") /\ IdlePdf("idle")

\* the cross-reference analyzer over the loaded tender collection
InitXref ==
    /\ vague_chunks \in XrefBatches
    /\ collection = <<>> /\ ci = 0 /\ pj = 0
    /\ related_chunks = <<>> /\ relevance_analyses = <<>>
    /\ all_phrase_analyses = <<>> /\ analyzed_chunks = <<>> /\ xlog = <<>>
    /\ search_calls = <<>>
    /\ pcX = "load"
    /\ IdleChunk("idle") /\ IdleDet("idle") /\ IdleSug("idle")
    /\ IdleScore("idle") /\ IdleLoad("idle") /\ IdlePdf("idle")

NextXref ==
    XLoad \/ XChunk \/ XSearch \/ (\E outcome \in JudgeOutcomes : XJudge(outcome))
    \/ XScore \/ XReturn

SpecXref == InitXref /\ [][NextXref]_vars

\* the cross-reference analyzer over a collection of up to MaxStored chunks
InitEvidence ==
    /\ vague_chunks \in EvidenceBatches
    /\ collection = <<>> /\ ci = 0 /\ pj = 0
    /\ related_chunks = <<>> /\ relevance_analyses = <<>>
    /\ all_phrase_analyses = <<>> /\ analyzed_chunks = <<>> /\ xlog = <<>>
    /\ search_calls = <<>>
    /\ pcX = "load"
    /\ IdleChunk("idle") /\ IdleDet("idle") /\ IdleSug("idle")
    /\ IdleScore("idle") /\ IdleLoad("idle") /\ IdlePdf("idle")

NextEvidence ==
    XLoadMany \/ XChunk \/ XSearchMany
    \/ (\E outcome \in EvidenceOutcomes : XJudge(outcome)) \/ XScore \/ XReturn

SpecEvidence == InitEvidence /\ [][NextEvidence]_vars

\* the suggestion agent over a batch of detection results
InitSug ==
    /\ detection_results \in SugBatches
    /\ si = 0 /\ sp = 0 /\ doc_suggestions = JNull
    /\ query_count = 0 /\ all_chunks = <<>>
    /\ retrieved_chunks = <<>> /\ suggestions = <<>> /\ processed_results = <<>>
    /\ slog = <<>> /\ pcS = "batch"
    /\ IdleChunk("idle") /\ IdleDet("idle") /\ IdleXref("idle")
    /\ IdleScore("idle") /\ IdleLoad("idle") /\ IdlePdf("idle")

NextSug ==
    SNext \/ (\E outcome \in IdentifyOutcomes : SIdentify(outcome)) \/ SRetrieve
    \/ (\E outcome \in GenerateOutcomes : SGenerate(outcome)) \/ SReturn

SpecSug == InitSug /\ [][NextSug]_vars

\* the three batch stages, each run over its own batch: detect_batch,
\* batch_analyze_cross_references and process_batch
InitStages == InitDetBatch \/ InitXref \/ InitSug

NextStages ==
    DetBatchNext \/ DetStart \/ (\E outcome \in BatchOutcomes : DetAttempt(outcome))
    \/ DetCombine \/ DetBatchStore \/ DetBatchReturn
    \/ XLoad \/ XChunk \/ XSearch \/ (\E outcome \in EvidenceOutcomes : XJudge(outcome))
    \/ XScore \/ XReturn
    \/ SNext \/ (\E outcome \in StageIdentifyOutcomes : SIdentify(outcome)) \/ SRetrieve
    \/ (\E outcome \in StageGenerateOutcomes : SGenerate(outcome)) \/ SReturn

SpecStages == InitStages /\ [][NextStages]_vars

\* calculate_cross_reference_score over lists of judgments
InitScore ==
    /\ judgments \in SeqsUpTo(ScoreJudgments, MaxJudgments)
    /\ score_calls = <<>> /\ pcScore = "score"
    /\ IdleChunk("idle") /\ IdleDet("idle") /\ IdleXref("idle") /\ IdleSug("idle")
    /\ IdleLoad("idle") /\ IdlePdf("idle")

NextScore == ScoreCall

SpecScore == InitScore /\ [][NextScore]_vars

\* load_tender_documents over the documents uploaded together
InitLoad ==
    /\ all_docs \in DocumentLists
    /\ batch_size \in 1..MaxBatchSize
    /\ di = 0 /\ doc_metadatas = <<>> /\ tender_chunks = <<>> /\ batch_i = 0
    /\ tender_collection = <<>> /\ pcLoad = "chunk"
    /\ IdleChunk("idle") /\ IdleDet("idle") /\ IdleXref("idle") /\ IdleSug("idle")
    /\ IdleScore("idle") /\ IdlePdf("idle")

NextLoad ==
    LoadChunkDocument \/ ChunkStart \/ ChunkLoop \/ ChunkFinish \/ LoadExtend
    \/ AddStart \/ (\E outcome \in AddOutcomes : AddBatch(outcome)) \/ AddReturn

SpecLoad == InitLoad /\ [][NextLoad]_vars

\* _extract_pages_parallel over the pages of a document
InitPdf ==
    /\ doc \in UNION {[1..n -> PageTexts \cup {BadPage}] : n \in 1..MaxPages}
    /\ max_workers \in 1..MaxWorkers
    /\ futures = <<>> /\ consumed = <<>>
    /\ page_texts = [k \in 1..Len(doc) |-> NonePage]
    /\ extracted = <<>> /\ pcPdf = "submit"
    /\ IdleChunk("idle") /\ IdleDet("idle") /\ IdleXref("idle") /\ IdleSug("idle")
    /\ IdleScore("idle") /\ IdleLoad("idle")

NextPdf ==
    PdfSubmit \/ (\E k \in 1..MaxPages : WorkerStart(k))
    \/ (\E k \in 1..MaxPages : WorkerFinish(k))
    \/ (\E k \in 1..MaxPages : PdfCollect(k)) \/ PdfReturn \/ PdfRaise

SpecPdf == InitPdf /\ [][NextPdf]_vars

\* ------------------------------------------------- claims on the segmenter
Drop(s, n) == SubSeq(s, n + 1, Len(s))

\* the sentences chunk k added beyond those carried over from chunk k-1
FreshOf(k) == Drop(chunks[k].sents, carried[k])

\* C7: segmentation coverage.  When chunk_by_sentences has returned, every
\* chunk is a contiguous run of the split sentences S, every sentence of S
\* lies in some chunk, the chunks' sentences without their carried-over
\* leading sentences concatenate to S exactly, and a text that is empty or
\* only whitespace gives no chunk.
C7_Coverage ==
    pcChunk = "done" =>
        /\ sentences = _split_into_sentences(text)
        /\ Len(carried) = Len(chunks)
        /\ \A k \in 1..Len(chunks) :
              /\ 0 <= chunks[k].start_sentence
              /\ chunks[k].start_sentence <= chunks[k].end_sentence
              /\ chunks[k].end_sentence < Len(sentences)
              /\ chunks[k].sents = SubSeq(sentences, chunks[k].start_sentence + 1,
                                          chunks[k].end_sentence + 1)
              /\ carried[k] < Len(chunks[k].sents)
        /\ \A j \in 1..Len(sentences) :
              \E k \in 1..Len(chunks) :
                  chunks[k].start_sentence + 1 <= j /\ j <= chunks[k].end_sentence + 1
        /\ Flatten([k \in 1..Len(chunks) |-> FreshOf(k)]) = sentences
        /\ (Strip(text) = <<>> => chunks = <<>>)

C7_Witness ==
    /\ pcChunk = "done"
    /\ Len(chunks) >= 3
    /\ carried[2] >= 1
    /\ Len(chunks[2].sents) >= 2

\* C8: chunk size bound.  Every emitted chunk has a combined sentence length
\* of at most chunk_size, unless it is one single sentence longer than
\* chunk_size.
C8_SizeBound ==
    \A k \in 1..Len(chunks) :
        \/ SumLen(chunks[k].sents) <= chunk_size
        \/ /\ Len(chunks[k].sents) = 1
           /\ Len(chunks[k].sents[1]) > chunk_size

\* the least n such that the last n sentences of ss hold at least ov
\* characters; all of ss when it holds fewer
ShortestTrail(ss, ov) ==
    LET ok == {n \in 0..Len(ss) : SumLen(Drop(ss, Len(ss) - n)) >= ov}
    IN  IF ok = {} THEN Len(ss) ELSE CHOOSE n \in ok : \A m \in ok : n <= m

\* C9: overlap policy.  The sentences carried into chunk k are the shortest
\* trailing run of the closed chunk k-1 whose cumulative length is at
\* least overlap (the whole chunk when it is shorter), for every overlap >= 0.
C9_OverlapPolicy ==
    \A k \in 2..Len(carried) :
        carried[k] = ShortestTrail(chunks[k - 1].sents, overlap)

\* the filename with its extension stripped, spaces and hyphens as underscores
IsSanitizedBase(b, filename) ==
    LET dots == {k \in 1..Len(filename) : filename[k] = "."}
        keep == IF dots = {} THEN Len(filename)
                ELSE (CHOOSE k \in dots : \A m \in dots : m <= k) - 1
    IN  /\ Len(b) = keep
        /\ \A k \in 1..keep :
              b[k] = IF filename[k] \in {" ", "-"} THEN "_" ELSE filename[k]

\* C10: chunk ids within one document.  The chunks carry the ids
\* <base>_chunk_0 .. <base>_chunk_(n-1) in emission order, base being the
\* sanitised filename, and so are pairwise distinct.
C10_ChunkIds ==
    pcChunk \in {"loop", "done"} =>
        /\ IsSanitizedBase(base_name,
                           IF doc_metadata = NoMetadata THEN Unknown ELSE doc_metadata)
        /\ \A k \in 1..Len(chunks) :
              chunks[k].chunk_id = Str(base_name) \o "_chunk_" \o ToString(k - 1)
        /\ \A k, m \in 1..Len(chunks) :
              k # m => chunks[k].chunk_id # chunks[m].chunk_id

C10_Witness ==
    /\ pcChunk = "done"
    /\ Len(chunks) >= 3
    /\ doc_metadata = <<"a", "-", "b">>
    /\ chunks[3].chunk_id = "a_b_chunk_2"

\* C25: paragraph segmentation mode.  chunk_by_paragraphs emits, in source
\* order, exactly the blank-line separated paragraphs whose stripped length
\* is at least 50 characters, each as one chunk; the chunk ids begin with the
\* sanitised document name and are pairwise different.
C25_ParagraphMode ==
    pcChunk = "paragraphs_done" =>
        LET paragraphs == StripNonEmpty(SplitParagraphs(text, 1))
            kept == SelectSeq(paragraphs, LAMBDA para : Len(para) >= ParagraphMin)
            prefix == Str(BaseName(doc_metadata)) \o "_para_"
        IN  /\ [k \in 1..Len(chunks) |-> chunks[k].text] = kept
            /\ \A k \in 1..Len(chunks) :
                  chunks[k].chunk_id = prefix \o ToString(chunks[k].paragraph_num)
            /\ \A j, k \in 1..Len(chunks) :
                  chunks[j].chunk_id = chunks[k].chunk_id => j = k

\* ------------------------------------------------ claims on the classifier
\* the LLM call failed: it raised, its text did not parse, or it parsed to
\* JSON that is not an object
CallFailed(outcome) ==
    LET r == CallAndParse(outcome) IN r.t = "raised" \/ ~IsDict(r)

DetResultFields ==
    {"chunk_id", "text", "is_vague", "rule_based_matches", "gemini_analysis",
     "acronyms", "vagueness_score"}

\* C1: degradation contract.  For every max_retries >= 0, when every LLM call
\* of a detect_vagueness_in_text run failed, the run raises nothing and
\* returns a result with all seven fields, is_vague being true whenever the
\* rule engine recorded a match.
C1_Degradation ==
    (pcDet \in {"returned", "raised"}
        /\ \A k \in 1..Len(outcomes) : CallFailed(outcomes[k]))
    => /\ pcDet = "returned"
       /\ DOMAIN det_result.f = DetResultFields
       /\ (DOMAIN rule_based_matches # {}
             => det_result.f["is_vague"] = JBool(TRUE))

\* the failure of a call is classed as network/timeout
TransientFailure(outcome) ==
    LET r == CallAndParse(outcome) IN r.t = "raised" /\ IsNetworkError(r.error)

IsSafeFallback(ga) ==
    /\ IsDict(ga)
    /\ Get(ga, "is_vague", JNull) = JBool(FALSE)
    /\ Get(ga, "severity", JNull) = JStr("unknown")

C11_IsVagueFusion ==
    pcDet = "returned" =>
        LET r == det_result.f
            matched == DOMAIN r["rule_based_matches"].m # {}
            llm == Get(r["gemini_analysis"], "is_vague", JBool(FALSE))
        IN  /\ r["is_vague"] = (IF matched THEN JBool(TRUE) ELSE llm)
            /\ Truthy(r["is_vague"]) <=> (matched \/ Truthy(llm))

\* the rule engine matched, the LLM answered "not vague", the result is vague
C11_Witness ==
    /\ pcDet = "returned"
    /\ DOMAIN rule_based_matches # {}
    /\ outcomes # <<>>
    /\ ~IsSafeFallback(gemini_analysis)
    /\ Get(gemini_analysis, "is_vague", JNull) = JBool(FALSE)
    /\ det_result.f["is_vague"] = JBool(TRUE)

\* the LLM share of the score: 0 when the analysis is not vague, else by severity
LlmShare(ga) ==
    IF ~Truthy(Get(ga, "is_vague", JNull)) THEN Zero
    ELSE LET severity == Get(ga, "severity", JNull)
         IN  CASE severity = JStr("low") -> Lit02
               [] severity = JStr("medium") -> Lit035
               [] severity = JStr("high") -> Lit05
               [] OTHER -> Lit035

\* C12: the score formula.  For every rule-match map and every LLM analysis
\* the detector returns a result whose vagueness_score is
\* min(0.1 * total rule matches, 0.5) + L, with L = 0 when the analysis is not
\* vague and otherwise 0.2 / 0.35 / 0.5 for low / medium / high and 0.35 for
\* any other or missing severity; the score lies in [0, 1].
C12_ScoreFormula ==
    (pcDet \in {"returned", "raised"} /\ IsDict(gemini_analysis)) =>
        /\ pcDet = "returned"
        /\ LET total == SumOver(rule_based_matches, DOMAIN rule_based_matches)
               score == det_result.f["vagueness_score"]
           IN  /\ score = FAdd(FMin(FMulInt(total, Lit01), Lit05),
                               LlmShare(gemini_analysis))
               /\ FLeq(Zero, score)
               /\ FLeq(score, One)

\* ---------------------------------------- claims on the cross-reference analyzer
\* the judgment call raised, or its response did not parse, or it parsed to
\* something that is not an object, or to an object whose relevance_score is
\* not a number or whose clarification_type is not a string
JudgmentFailed(outcome) ==
    LET r == CallAndParse(outcome) IN
    \/ r.t = "raised"
    \/ ~IsDict(r)
    \/ ~IsNumber(Get(r, "relevance_score", JNum(0)))
    \/ Get(r, "clarification_type", JStr("none")).t # "str"

IsDegradedJudgment(a) ==
    /\ Get(a, "is_relevant", JNull) = JBool(FALSE)
    /\ Get(a, "relevance_score", JNull) = JNum(0)
    /\ Get(a, "reasoning", JNull).t = "text"
    /\ Take(Get(a, "reasoning", JNull).words, 3) = <<"Error", "in", "analysis:">>

\* C3: a failing relevance judgment never aborts the analysis.  No run of
\* batch_analyze_cross_references ends in an exception, and every judgment of
\* the phrase at hand whose LLM call raised or answered an unparseable or
\* wrongly-typed response is recorded with is_relevant false, relevance_score
\* 0.0 and the error text in reasoning.
C3_JudgmentContained ==
    /\ pcX # "raised"
    /\ pcX = "judge" =>
          \A n \in 1..Len(xlog) :
              (xlog[n].ci = ci /\ xlog[n].pj = pj /\ JudgmentFailed(xlog[n].outcome))
                  => IsDegradedJudgment(relevance_analyses[xlog[n].k])

\* the LLM calls made for the judgment that call n belongs to
CallsOf(n) ==
    {m \in 1..Len(xlog) :
        xlog[m].ci = xlog[n].ci /\ xlog[m].pj = xlog[n].pj /\ xlog[m].k = xlog[n].k}

\* C5: transient failures are retried at the relevance-judgment call site.  A
\* judgment whose LLM call failed with a network/timeout error is recorded
\* only after the call was made again.
C5_RetryAtJudgment ==
    \A n \in 1..Len(xlog) :
        TransientFailure(xlog[n].outcome) => Cardinality(CallsOf(n)) >= 2

\* C6: self-exclusion.  With the flagged chunk stored in the collection by
\* add_documents_to_collection and its chunk_id handed to the analyzer,
\* neither the related chunks search_related_chunks returned for it nor the
\* judged candidates include the entry stored for the flagged chunk.
C6_SelfExclusion ==
    pcX = "judge" =>
        LET own == StoredEntry(CHOOSE c \in {TenderChunks[k] : k \in 1..Len(TenderChunks)} :
                                   c.chunk_id = vague_chunks[ci + 1].chunk_id)
        IN  /\ \A k \in 1..Len(related_chunks) : related_chunks[k].id # own.id
            /\ \A k \in 1..Len(relevance_analyses) :
                   Get(relevance_analyses[k], "chunk_id", JNull) # JStr(own.id)

\* the phrase analyses made so far, each with the chunk and phrase it is of
PhraseRecords ==
    UNION {{[ci |-> c - 1, pj |-> p - 1, pa |-> analyzed_chunks[c].phrase_analyses[p]] :
               p \in 1..Len(analyzed_chunks[c].phrase_analyses)} :
           c \in 1..Len(analyzed_chunks)}
    \cup (IF pcX \in {"search", "judge", "raised"}
          THEN {[ci |-> ci, pj |-> p - 1, pa |-> all_phrase_analyses[p]] :
                   p \in 1..Len(all_phrase_analyses)}
          ELSE {})

\* the LLM judgments asked for phrase pj of chunk ci
JudgedFor(c, p) == {n \in 1..Len(xlog) : xlog[n].ci = c /\ xlog[n].pj = p}

\* C14: degenerate evidence.  A phrase whose search returned no related chunk
\* has had no judgment made and has the score exactly 0.0, interpretation
\* no_information, related_chunks_found 0; a phrase whose related chunks were
\* judged, none found relevant, has the score exactly 0.1 and interpretation
\* weak_connection.
C14_DegenerateEvidence ==
    \A rec \in PhraseRecords :
        /\ rec.pa.related_chunks_found = 0 =>
              /\ JudgedFor(rec.ci, rec.pj) = {}
              /\ rec.pa.cross_reference_score = Zero
              /\ rec.pa.reasoning.score = Zero
              /\ rec.pa.reasoning.interpretation = "no_information"
        /\ (rec.pa.related_chunks_found > 0 /\ rec.pa.relevant_chunks_found = 0) =>
              /\ JudgedFor(rec.ci, rec.pj) # {}
              /\ rec.pa.cross_reference_score = Lit01
              /\ rec.pa.reasoning.score = Lit01
              /\ rec.pa.reasoning.interpretation = "weak_connection"

\* one phrase with no related chunk and one with judged chunks, none relevant
C14_Witness ==
    /\ \E rec \in PhraseRecords :
          /\ rec.pa.related_chunks_found = 0
          /\ rec.pa.cross_reference_score = Zero
    /\ \E rec \in PhraseRecords :
          /\ rec.pa.related_chunks_found = 2
          /\ rec.pa.relevant_chunks_found = 0
          /\ rec.pa.cross_reference_score = Lit01

\* C18: chunk rollup.  A chunk's cross_reference_score is the arithmetic mean
\* of its per-phrase scores and has_cross_references is true exactly when
\* that mean is more than 0.3; a chunk with no flagged phrase is answered
\* with 0.0, false and no phrase analyses, no search and no LLM call made.
C18_ChunkRollup ==
    \A c \in 1..Len(analyzed_chunks) :
        LET r == analyzed_chunks[c]
            vague_phrases == vague_chunks[c].gemini_analysis.vague_phrases
            n == Len(r.phrase_analyses)
        IN  IF vague_phrases = <<>>
            THEN /\ r.cross_reference_score = Zero
                 /\ r.has_cross_references = FALSE
                 /\ r.phrase_analyses = <<>>
                 /\ \A k \in 1..Len(search_calls) : search_calls[k].ci # c - 1
                 /\ \A k \in 1..Len(xlog) : xlog[k].ci # c - 1
            ELSE /\ n = Len(vague_phrases)
                 /\ r.cross_reference_score
                       = FDivInt(FSum([p \in 1..n |->
                                          r.phrase_analyses[p].cross_reference_score]), n)
                 /\ r.has_cross_references <=> FLess(Lit03, r.cross_reference_score)

\* a chunk without flagged phrases answered after a chunk whose mean is
\* exactly 0.3 (no cross references) and which was searched and judged
C18_Witness ==
    /\ Len(analyzed_chunks) = 2
    /\ analyzed_chunks[1].cross_reference_score = Lit03
    /\ ~analyzed_chunks[1].has_cross_references
    /\ vague_chunks[2].gemini_analysis.vague_phrases = <<>>
    /\ analyzed_chunks[2].phrase_analyses = <<>>
    /\ search_calls # <<>> /\ xlog # <<>>

\* lines 303-340 with related_chunks == []: the analysis of a phrase whose
\* search succeeded and returned no chunk
EmptyFinding(vague_phrase) ==
    [vague_phrase |-> vague_phrase,
     related_chunks_found |-> 0,
     relevant_chunks_found |-> 0,
     cross_reference_score |-> Zero,
     reasoning |-> NoInformation.reasoning,
     top_relevant_chunks |-> <<>>]

\* the searches made for phrase p of chunk c in which search_similar raised
FailedSearches(c, p) ==
    {k \in 1..Len(search_calls) :
        /\ search_calls[k].ci = c /\ search_calls[k].pj = p
        /\ search_calls[k].results.t = "raised"}

\* C21: failed analysis is distinguishable from an empty finding.  The
\* analysis of a phrase whose vector search raised differs from the analysis
\* a successful search without results gives for that phrase (it carries the
\* error somewhere).
C21_FailureDistinguishable ==
    \A rec \in PhraseRecords :
        FailedSearches(rec.ci, rec.pj) # {} => rec.pa # EmptyFinding(rec.pa.vague_phrase)

\* the search made for phrase p of chunk c
SearchFor(c, p) ==
    search_calls[CHOOSE k \in 1..Len(search_calls) :
                     search_calls[k].ci = c /\ search_calls[k].pj = p]

\* what search_similar answered for phrase p of chunk c ([] when it raised)
RetrievedFor(c, p) ==
    IF SearchFor(c, p).results.t = "results" THEN SearchFor(c, p).results.v ELSE <<>>

\* the position in the sequence related of the chunk a judgment is about
PositionIn(related, judgment) ==
    CHOOSE k \in 1..Len(related) : Get(judgment, "chunk_id", JNull) = JStr(related[k].id)

\* C27: per-phrase evidence counts.  For every analysed phrase at most 10
\* chunks are retrieved, the judgments asked are one for each of the first 5
\* related chunks in retrieval order and no other, relevant_chunks_found <=
\* number judged <= related_chunks_found, and top_relevant_chunks holds at
\* most 3 judgments, each relevant and about one of the judged chunks, in
\* retrieval order.
C27_EvidenceCounts ==
    \A rec \in PhraseRecords :
        \E related \in {FormatResults(RetrievedFor(rec.ci, rec.pj),
                                       vague_chunks[rec.ci + 1].chunk_id)} :
        LET judged == JudgedFor(rec.ci, rec.pj)
            top == rec.pa.top_relevant_chunks
        IN  /\ Len(RetrievedFor(rec.ci, rec.pj)) <= 10
            /\ rec.pa.related_chunks_found = Len(related)
            /\ Cardinality(judged) <= 5
            /\ Cardinality(judged) = Cardinality({xlog[n].k : n \in judged})
            /\ {xlog[n].k : n \in judged} = 1..Min(5, Len(related))
            /\ rec.pa.relevant_chunks_found <= Cardinality(judged)
            /\ Cardinality(judged) <= rec.pa.related_chunks_found
            /\ Len(top) <= 3
            /\ Len(top) <= rec.pa.relevant_chunks_found
            /\ \A q \in 1..Len(top) :
                  /\ Get(top[q], "is_relevant", JBool(FALSE)) = JBool(TRUE)
                  /\ \E k \in 1..Min(5, Len(related)) :
                        Get(top[q], "chunk_id", JNull) = JStr(related[k].id)
            /\ \A q, r \in 1..Len(top) :
                  q < r => PositionIn(related, top[q]) < PositionIn(related, top[r])

\* a phrase with 10 related chunks out of a larger collection, 5 of them
\* judged, 4 or more found relevant and 3 kept
C27_Witness ==
    \E rec \in PhraseRecords :
        /\ Len(collection) > 10
        /\ rec.pa.related_chunks_found = 10
        /\ Cardinality(JudgedFor(rec.ci, rec.pj)) = 5
        /\ rec.pa.relevant_chunks_found >= 4
        /\ Len(rec.pa.top_relevant_chunks) = 3

\* ------------------------------------------- claims on the suggestion agent
\* the suggestion recorded for the generate call logged as e
SuggestionOf(e) ==
    IF e.si < Len(processed_results)
    THEN processed_results[e.si + 1].suggestions[e.sp + 1].suggestion
    ELSE suggestions[e.sp + 1].suggestion

IsDegradedSuggestion(sg, vague_text, error) ==
    /\ Get(sg, "improved_text", JNull) = [t |-> "text", words |-> vague_text]
    /\ Get(sg, "specific_changes", JNull) = JList(<<>>)
    /\ Get(sg, "standards_referenced", JNull) = JList(<<>>)
    /\ Get(sg, "explanation", JNull)
          = ErrorText(<<"Error", "generating", "suggestion:">>, error)

\* C2: the suggestion batch always completes.  No run of process_batch ends
\* in an exception, whatever the LLM calls did; a run that returned has one
\* result per input, every vague phrase of every vague chunk with a
\* suggestion entry; and a generate_suggestion call that raised or did not
\* parse left a suggestion with the original text as improved_text, empty
\* specific_changes and standards_referenced, and the error in explanation.
C2_BatchCompletes ==
    /\ pcS # "raised"
    /\ pcS = "returned" =>
          /\ Len(processed_results) = Len(detection_results)
          /\ \A k \in 1..Len(detection_results) :
                detection_results[k].is_vague =>
                    Len(processed_results[k].suggestions)
                        = Len(detection_results[k].gemini_analysis.vague_phrases)
    /\ \A n \in 1..Len(slog) :
          (slog[n].step = "generate" /\ CallAndParse(slog[n].outcome).t = "raised")
              => IsDegradedSuggestion(SuggestionOf(slog[n]),
                                      detection_results[slog[n].si + 1].text,
                                      CallAndParse(slog[n].outcome).error)

\* the place in all_chunks where the id of retrieved_chunks[k] is first seen
FirstSeen(k) ==
    CHOOSE j \in 1..Len(all_chunks) :
        /\ all_chunks[j].id = retrieved_chunks[k].id
        /\ \A q \in 1..j - 1 : all_chunks[q].id # retrieved_chunks[k].id

\* the search terms retrieve_relevant_chunks was given
SearchTermsAt(n, p) ==
    Get(doc_suggestions, "search_terms",
        JList(<<JStr(detection_results[n + 1].gemini_analysis.vague_phrases[p + 1])>>))

\* C19: retrieval deduplication.  retrieve_relevant_chunks has issued one
\* retrieval query per search term; its result holds no two chunks with the
\* same id and every id the queries returned; the chunk kept for an id is the
\* first one with that id in the per-term results concatenated in term order;
\* and the kept chunks are in first-seen order.
C19_Deduplication ==
    pcS = "generate" =>
        /\ query_count = NumTerms(SearchTermsAt(si, sp))
        /\ \A k \in 1..Len(all_chunks) : all_chunks[k].distance.query \in 1..query_count
        /\ \A j, k \in 1..Len(retrieved_chunks) :
              retrieved_chunks[j].id = retrieved_chunks[k].id => j = k
        /\ {retrieved_chunks[k].id : k \in 1..Len(retrieved_chunks)}
              = {all_chunks[k].id : k \in 1..Len(all_chunks)}
        /\ \A k \in 1..Len(retrieved_chunks) : retrieved_chunks[k] = all_chunks[FirstSeen(k)]
        /\ \A j, k \in 1..Len(retrieved_chunks) : j < k => FirstSeen(j) < FirstSeen(k)

\* two terms were queried, both answered with the same two chunks in opposite
\* orders: four results, two kept, those of the first query
C19_Witness ==
    /\ pcS = "generate"
    /\ query_count = 2
    /\ Len(all_chunks) = 4
    /\ all_chunks[1].id = all_chunks[4].id
    /\ all_chunks[2].id = all_chunks[3].id
    /\ retrieved_chunks = <<all_chunks[1], all_chunks[2]>>


\* ------------------------------------------------- claims on the per-phrase score
\* the calls of calculate_cross_reference_score made with at least one
\* relevant judgment
ScoredWithEvidence == {n \in 1..Len(score_calls) : RelevantOf(score_calls[n].analyses) # <<>>}

\* the weights of the clarification types
ClarificationWeight(ct) ==
    CASE ct = "definition" -> Lit04
      [] ct = "specification" -> Lit03
      [] ct = "standard" -> Lit03
      [] ct = "example" -> Lit02
      [] ct = "none" -> Zero

\* min(0.5 x avg_relevance + 0.5 x (diversity_bonus + type_bonus), 1.0) of the
\* relevant judgments rel, each operation a float operation
AggregateOf(rel) ==
    LET m == Len(rel)
        avg_relevance ==
            FDivInt(FSum([k \in 1..m |-> NumOf(rel[k].f["relevance_score"])]), m)
        documents == {rel[k].f["source_document"] : k \in 1..m}
        diversity_bonus == FMin(FMulInt(Cardinality(documents), Lit01), Lit03)
        type_bonus ==
            FDivInt(FSum([k \in 1..m |->
                             ClarificationWeight(rel[k].f["clarification_type"].s)]), m)
    IN  [avg_relevance |-> avg_relevance, diversity_bonus |-> diversity_bonus,
         type_bonus |-> type_bonus,
         final |-> FMin(FAdd(FHalf(avg_relevance),
                             FHalf(FAdd(diversity_bonus, type_bonus))), One)]

\* the relevant judgments are (definition, 0.9) and (example, 0.7) from two
\* distinct documents
IsWorkedExample(rel) ==
    /\ Len(rel) = 2
    /\ {rel[1], rel[2]} = {Judgment(TRUE, 90, "definition", "a.p"),
                           Judgment(TRUE, 70, "example", "b.p")}

\* C13: per-phrase aggregation formula.  With at least one relevant judgment
\* the returned score is min(0.5 x avg_relevance + 0.5 x (diversity_bonus +
\* type_bonus), 1.0), avg_relevance the mean relevance_score of the relevant
\* judgments, diversity_bonus min(0.1 x distinct source documents, 0.3),
\* type_bonus the mean of the type weights; the relevant judgments
\* (definition, 0.9) and (example, 0.7) from two documents give
\* diversity_bonus 0.2, type_bonus (0.4 + 0.2) / 2, avg_relevance 0.8,
\* final 0.65 and moderate_clarification.
C13_AggregationFormula ==
    \A n \in ScoredWithEvidence :
        LET call == score_calls[n]
            rel == RelevantOf(call.analyses)
            agg == AggregateOf(rel)
        IN  /\ call.result.t = "ok"
            /\ call.result.score = agg.final
            /\ IsWorkedExample(rel) =>
                  /\ agg.diversity_bonus = Lit02
                  /\ agg.type_bonus = FHalf(FAdd(Lit04, Lit02))
                  /\ FLeq(Lit03, agg.type_bonus)
                  /\ FLess(agg.type_bonus, FLit(301, 1000))
                  /\ agg.avg_relevance = Lit08
                  /\ call.result.reasoning.calculation_breakdown
                        = [base_score |-> Lit04, diversity_bonus |-> Lit02,
                           type_bonus |-> agg.type_bonus, final_score |-> FLit(65, 100)]
                  /\ call.result.score = FLit(65, 100)
                  /\ call.result.reasoning.interpretation = "moderate_clarification"

\* the worked example has been scored, an irrelevant judgment listed with it
C13_Witness ==
    \E n \in ScoredWithEvidence :
        /\ Len(score_calls[n].analyses) = 3
        /\ IsWorkedExample(RelevantOf(score_calls[n].analyses))
        /\ score_calls[n].result.score = FLit(65, 100)

\* C15: interpretation thresholds.  With at least one relevant judgment the
\* interpretation is strong_clarification iff final >= 0.8,
\* moderate_clarification iff 0.6 <= final < 0.8, partial_clarification iff
\* 0.4 <= final < 0.6, weak_clarification iff final < 0.4, and the score in
\* the reasoning record is the returned score.
C15_Thresholds ==
    \A n \in ScoredWithEvidence :
        LET r == score_calls[n].result
            final == r.score
            interpretation == r.reasoning.interpretation
        IN  r.t = "ok" =>
            /\ interpretation = "strong_clarification" <=> FLeq(Lit08, final)
            /\ interpretation = "moderate_clarification"
                  <=> (FLeq(Lit06, final) /\ FLess(final, Lit08))
            /\ interpretation = "partial_clarification"
                  <=> (FLeq(Lit04, final) /\ FLess(final, Lit06))
            /\ interpretation = "weak_clarification" <=> FLess(final, Lit04)
            /\ r.reasoning.score = r.score

\* a score exactly on the threshold 0.4 has been interpreted as partial
C15_Witness ==
    \E n \in ScoredWithEvidence :
        /\ score_calls[n].result.score = Lit04
        /\ score_calls[n].result.reasoning.interpretation = "partial_clarification"

\* C16: score bounds.  For every list of judgments, whatever relevance_score
\* and clarification_type the LLM reported in them, the per-phrase
\* cross-reference score lies in [0, 1] (and with it the chunk-level score,
\* the mean of the per-phrase scores).
C16_ScoreBounds ==
    \A n \in 1..Len(score_calls) :
        /\ score_calls[n].result.t = "ok"
        /\ FLeq(Zero, score_calls[n].result.score)
        /\ FLeq(score_calls[n].result.score, One)

\* the order of the clarification types by weight
TypeRank(ct) ==
    CASE ct = "none" -> 0
      [] ct = "example" -> 1
      [] ct = "specification" -> 2
      [] ct = "standard" -> 2
      [] ct = "definition" -> 3

TypeNames == {"none", "example", "specification", "standard", "definition"}

\* the list with the clarification_type of judgment k replaced
WithType(analyses, k, ct) ==
    [analyses EXCEPT ![k] = SetItem(@, "clarification_type", JStr(ct))]

\* the relevant judgments of a list, by position
RelevantAt(analyses) ==
    {k \in 1..Len(analyses) : Truthy(Get(analyses[k], "is_relevant", JBool(FALSE)))}

\* C17: monotonicity in the clarification type.  Replacing the
\* clarification_type of one relevant judgment by a type of higher (or equal)
\* weight, none < example < specification = standard < definition, everything
\* else held fixed, never decreases the score.
C17_TypeMonotone ==
    \A n \in ScoredWithEvidence :
        LET analyses == score_calls[n].analyses IN
        \A k \in RelevantAt(analyses) :
            \A ct \in TypeNames :
                TypeRank(ct) >= TypeRank(analyses[k].f["clarification_type"].s) =>
                    FLeq(score_calls[n].result.score,
                         calculate_cross_reference_score(WithType(analyses, k, ct)).score)

\* a scored list in which raising an example to a definition raises the score
C17_Witness ==
    \E n \in ScoredWithEvidence :
        LET analyses == score_calls[n].analyses IN
        \E k \in RelevantAt(analyses) :
            /\ analyses[k].f["clarification_type"] = JStr("example")
            /\ FLess(score_calls[n].result.score,
                     calculate_cross_reference_score(
                         WithType(analyses, k, "definition")).score)

Close(x, y) ==
    LET eps == FDivInt(FDivInt(FLit(1, 1000), 1000), 1000)
        neg(v) == Float(~v.neg, v.mag)
    IN  FLess(FAdd(x, neg(y)), eps) /\ FLess(FAdd(y, neg(x)), eps)

ScoresInUnitRange(analyses) ==
    \A k \in 1..Len(RelevantOf(analyses)) :
        LET v == Get(RelevantOf(analyses)[k], "relevance_score", JNum(0))
        IN  IsNumber(v) /\ FLeq(Zero, NumOf(v)) /\ FLeq(NumOf(v), One)

\* C30: relevant evidence never scores below irrelevant evidence.  A list of
\* judgments with relevance scores in [0, 1] and at least one relevant
\* judgment gets a score of at least 0.1, the score of judged chunks none of
\* which is relevant.
C30_RelevantNotBelowIrrelevant ==
    \A n \in ScoredWithEvidence :
        ScoresInUnitRange(score_calls[n].analyses)
            => /\ score_calls[n].result.t = "ok"
               /\ FLeq(WeakConnection.score, score_calls[n].result.score)

\* ------------------------------------------------- claims on the loader
\* C23: pipeline stages do not mutate what they are given.  While and after
\* add_documents_to_collection runs, every chunk passed to it has the
\* metadata chunk_document gave it: the filename of its document and nothing
\* else.
C23_InputsNotMutated ==
    \A k \in 1..Len(tender_chunks) :
        doc_metadatas[tender_chunks[k].metadata]
            = [filename |-> all_docs[tender_chunks[k].metadata].filename]

\* C24: inserts are all-or-nothing.  When add_documents_to_collection has
\* raised in one of its batches, the collection holds what it held before the
\* call: nothing, the collection having been made anew.
C24_AllOrNothing ==
    pcLoad = "raised" => tender_collection = <<>>

\* C28: chunk ids are unique across documents.  Of the chunks made from
\* documents with pairwise distinct filenames, no two of different documents
\* have the same chunk id.
C28_IdsUniqueAcrossDocuments ==
    \A j, k \in 1..Len(tender_chunks) :
        tender_chunks[j].metadata # tender_chunks[k].metadata
            => tender_chunks[j].chunk_id # tender_chunks[k].chunk_id

\* C29: stored metadata belongs to its own chunk.  Every entry of the
\* collection has, in its metadata, the chunk id its own id was made from and
\* the first 200 characters of its own text.
C29_OwnMetadata ==
    \A k \in 1..Len(tender_collection) :
        /\ tender_collection[k].id = StoredId(tender_collection[k].metadata.chunk_id)
        /\ tender_collection[k].metadata.text_preview
              = Take(tender_collection[k].document, PreviewLen)

\* ------------------------------------------------ claims on the PDF extractor
\* the entries _extract_pages_parallel has to return for the pages from k on:
\* one per page whose text is not blank, numbered from 1
RECURSIVE PagesWithText(_, _)
PagesWithText(d, k) ==
    IF k > Len(d) THEN <<>>
    ELSE IF d[k] # <<>> /\ Strip(d[k]) # <<>>
         THEN <<[page_num |-> k, text |-> d[k]]>> \o PagesWithText(d, k + 1)
         ELSE PagesWithText(d, k + 1)

\* C26: whatever the interleaving of the page workers and the order their
\* tasks complete in, _extract_pages_parallel returns only once every page
\* task is finished, and the list it returns holds each page with non-blank
\* text exactly once, in ascending page_num, each with the text of its own page
C26_OrderInsensitive ==
    pcPdf = "returned" =>
        /\ Len(futures) = Len(doc)
        /\ \A k \in 1..Len(futures) : futures[k].state = "done"
        /\ extracted = PagesWithText(doc, 1)

\* a document returned after its tasks were handed over out of page order,
\* with a blank page dropped and two pages kept
C26_Witness ==
    /\ pcPdf = "returned"
    /\ \E m, n \in 1..Len(consumed) : m < n /\ consumed[m] > consumed[n]
    /\ Len(extracted) >= 2
    /\ Len(extracted) < Len(doc)
    /\ max_workers > 1
\* --------------------------------------------- claims on the batch stages
\* entry j of each list is about phrase j of the list of phrases
OnePerPhrase(entries, vague_phrases) ==
    /\ Len(entries) = Len(vague_phrases)
    /\ \A j \in 1..Len(entries) : entries[j].vague_phrase = vague_phrases[j]

\* C22: order and cardinality through the batch stages.  What detect_batch,
\* batch_analyze_cross_references and process_batch return is as long as the
\* input and its i-th element has the chunk_id of the i-th input (the index,
\* for a chunk detect_batch got without chunk_id); the phrase_analyses of a
\* chunk, and the suggestions of a chunk process_batch found vague, have one
\* entry per listed phrase, the j-th for the j-th phrase; a result that is
\* not vague comes back from process_batch as it went in.
C22_OrderAndCardinality ==
    /\ pcDet = "batch_returned" =>
          /\ Len(det_results) = Len(det_chunks)
          /\ \A k \in 1..Len(det_results) :
                det_results[k].f["chunk_id"]
                    = ChunkGet(det_chunks[k], "chunk_id", JNum(k - 1))
    /\ pcX = "returned" =>
          /\ Len(analyzed_chunks) = Len(vague_chunks)
          /\ \A k \in 1..Len(analyzed_chunks) :
                /\ analyzed_chunks[k].chunk_id = vague_chunks[k].chunk_id
                /\ OnePerPhrase(analyzed_chunks[k].phrase_analyses,
                                vague_chunks[k].gemini_analysis.vague_phrases)
    /\ pcS = "returned" =>
          /\ Len(processed_results) = Len(detection_results)
          /\ \A k \in 1..Len(processed_results) :
                /\ processed_results[k].chunk_id = detection_results[k].chunk_id
                /\ IF detection_results[k].is_vague
                   THEN OnePerPhrase(processed_results[k].suggestions,
                                     detection_results[k].gemini_analysis.vague_phrases)
                   ELSE processed_results[k] = detection_results[k]

\* process_batch returned for two results with different chunk ids, the
\* first vague with two phrases and two suggestions, the second not vague
C22_Witness ==
    /\ pcS = "returned"
    /\ Len(detection_results) = 2
    /\ detection_results[1].chunk_id # detection_results[2].chunk_id
    /\ detection_results[1].is_vague
    /\ Len(detection_results[1].gemini_analysis.vague_phrases) = 2
    /\ Len(processed_results[1].suggestions) = 2
    /\ ~detection_results[2].is_vague
====
